---- MODULE Spec2Model ----
(***************************************************************************)
(* FuelWise route optimizer: RouteOptimizer.optimize of                    *)
(* src/routing/services.py (candidate filter, greedy stop selection,      *)
(* totals) and the answer optimize_route of src/routing/views.py gives    *)
(* (specification Spec); the same request answered twice from the same    *)
(* station snapshot (specification TwiceSpec); the route geometry        *)
(* (is_near_route, get_distance_along_route, the bounding-box lookup of   *)
(* get_candidate_stations) asked about points of given routes             *)
(* (specification GeoSpec), with coordinates in 1/80 degree and           *)
(* haversine distances in millionths of a mile.                           *)
(*                                                                         *)
(* Units: distances are whole miles (binary64 holds them, their sums and  *)
(* differences exactly); fuel amounts are whole gallons; prices are       *)
(* DecimalField(decimal_places=5) values, held as the integer number of   *)
(* 1e-5 currency units. The 'cost' of a stop and the total cost are       *)
(* binary64 values, computed with the rounding binary64 applies.          *)
(***************************************************************************)
EXTENDS Integers, Sequences, FiniteSets, TLC

(* ---------------------------------------------------------------- bounds *)

\* Largest station inventory the lookup returns.
MaxStations == 3

(* ------------------------------------------------------ program constants *)

VEHICLE_RANGE == 500
MPG == 10
\* VEHICLE_RANGE * 0.6 and VEHICLE_RANGE * 0.9 (lines 256-257): in binary64
\* these products are exactly 300.0 and 450.0.
OptimalMinOffset == (VEHICLE_RANGE * 6) \div 10
OptimalMaxOffset == (VEHICLE_RANGE * 9) \div 10

\* TANK_SIZE = VEHICLE_RANGE / MPG, in gallons. Fuel amounts are whole gallons:
\* every distance of the model is a multiple of MPG miles (see Dists), so the
\* divisions by MPG are exact, as they are in binary64 for these values.
TANK_SIZE == VEHICLE_RANGE \div MPG

\* A nullable value: NULL (None), or Some(v).
NULL == << >>
Some(v) == << v >>
\* Coordinates that are set (and not zero).
SomeCoord == [lat |-> Some(37), lng |-> Some(-122)]

(* ------------------------------------------------------------ input sets *)

\* Positions get_distance_along_route can give a station (0 or a prefix sum of
\* segment lengths), in miles.
Dists == {0, 100, 300, 450, 600, 800, 950}

\* retail_price in 1e-5 units: 2.50000 and 2.80000.
Prices == {250000, 280000}

\* Route lengths, in miles.
RouteLengths == {0, 400, 500, 1000, 1400}

\* A station of the inventory as this route sees it: the FuelStation fields the
\* optimizer reads, the answer of the bounding-box lookup for it (in_box), of
\* is_near_route (near_route) and of get_distance_along_route (distance_along).
NearStations ==
    [latitude : {SomeCoord.lat}, longitude : {SomeCoord.lng}, in_box : {TRUE}, near_route : {TRUE},
     distance_along : Dists, retail_price : Prices]

\* A station without latitude, one without longitude (no comparison of the
\* lookup holds for a NULL column, and is_near_route is never asked), and one
\* with coordinates inside the box but outside the corridor.
OtherStations ==
    { [latitude |-> NULL, longitude |-> SomeCoord.lng, in_box |-> FALSE, near_route |-> FALSE,
       distance_along |-> 0, retail_price |-> 250000],
      [latitude |-> SomeCoord.lat, longitude |-> NULL, in_box |-> FALSE, near_route |-> FALSE,
       distance_along |-> 0, retail_price |-> 250000],
      [latitude |-> SomeCoord.lat, longitude |-> SomeCoord.lng, in_box |-> TRUE, near_route |-> FALSE,
       distance_along |-> 300, retail_price |-> 250000] }

StationSet == NearStations \cup OtherStations

Station(d, p) ==
    [latitude |-> SomeCoord.lat, longitude |-> SomeCoord.lng, in_box |-> TRUE, near_route |-> TRUE,
     distance_along |-> d, retail_price |-> p]

\* The greedy selection scenario: route of 1000 miles, stations at
\* 100, 300, 450, 600, 850 priced 3.00, 2.50, 2.90, 2.60, 2.80, in the order
\* of their prices.
ScenarioTotal == 2 * VEHICLE_RANGE
ScenarioStations ==
    << Station(300, 250000), Station(600, 260000), Station(850, 280000),
       Station(450, 290000), Station(100, 300000) >>

\* The lookup's rows, each tagged with its opis_id (here: its row number).
WithIds(rows) == [i \in 1..Len(rows) |-> [opis_id |-> i] @@ rows[i]]

\* FuelStation.Meta.ordering = ['retail_price']: every lookup returns its rows
\* by ascending price; rows of equal price come in any order.
OrderedByPrice(rows) ==
    \A i \in 1..(Len(rows) - 1) : rows[i].retail_price <= rows[i + 1].retail_price

Inventories ==
    { rows \in UNION { [1..n -> StationSet] : n \in 0..MaxStations } : OrderedByPrice(rows) }

\* route_data['segments'] of a well-formed route: one segment, coordinates in
\* hundredths of a degree.
OneSegment ==
    << [start |-> [lat |-> 3700, lng |-> -12200], end |-> [lat |-> 3700, lng |-> -11200]] >>

\* The inventories and route lengths of the requests answered twice.
TwiceStations ==
    { Station(300, 250000), Station(450, 250000), Station(450, 280000), Station(950, 250000) }
TwiceInventories ==
    { rows \in UNION { [1..n -> TwiceStations] : n \in 0..MaxStations } : OrderedByPrice(rows) }
TwiceLengths == {0, 1000}

(* ----------------------------------------------------------------- state *)

VARIABLES
    total_distance,          \* route_data['distance']
    segments,                \* route_data['segments']
    inventory,               \* FuelStation rows, in the order the lookup returns them
    pc,                      \* where optimize / optimize_route is
    stations_with_distance,  \* select_optimal_stops: annotated, sorted candidates
    fuel_stops,              \* select_optimal_stops: stops emitted so far
    current_position,        \* select_optimal_stops: miles from start
    current_fuel,            \* select_optimal_stops: gallons in the tank
    warned,                  \* the "No reachable stations" warning was logged
    result,                  \* the dict optimize returned, if it returned
    error,                   \* the exception optimize raised, "none" if none
    http_status,             \* status of the response of optimize_route, 0 before it
    iterations,              \* select_optimal_stops: executions of the loop body so far
    first_answer,            \* the answer to the same request asked before, if any
    point,                   \* the coordinates the route geometry is asked about
    near,                    \* the answer of is_near_route for point, if asked
    along,                   \* the answer of get_distance_along_route for point, if asked
    in_query,                \* whether the bounding-box lookup returns a station at point
    haversine,               \* haversine_distance on the route asked about, tabulated
    candidate,               \* whether get_candidate_stations returns a station at point
    body,                    \* optimize_route: request.data of the POST received, if any
    view_pc,                 \* optimize_route: where the view is with that POST
    cache,                   \* django.core.cache: the entries held, by key
    map_pc,                  \* optimize_route, lines 102-108: where the route lookup is
    last_call,               \* the last call of get_route: arguments, calls made, outcome
    requests,                \* route lookups started so far
    geocoded,                \* the last call of _live_geocode: inputs, calls made, outcome
    api_calls_made,          \* MapAPIClient.api_calls_made of the geocoding client
    table,                   \* the fuel_stations table, by opis_id
    csv_file                 \* the last file import_fuel_data has processed, if any

vars == << total_distance, segments, inventory, pc, stations_with_distance, fuel_stops,
           current_position, current_fuel, warned, result, error, http_status,
           iterations, first_answer, point, near, along, in_query, haversine,
           candidate, body, view_pc, cache, map_pc, last_call, requests, geocoded,
           api_calls_made, table, csv_file >>

\* The variables of the route geometry, those of the services around the
\* optimizer (input validation, map client and cache, import), and those of a
\* request.
geo_vars == << point, near, along, in_query, haversine, candidate >>
view_vars == << body, view_pc >>
map_vars == << cache, map_pc, last_call, requests >>
geocode_vars == << geocoded, api_calls_made >>
import_vars == << table, csv_file >>
service_vars == << view_vars, map_vars, geocode_vars, import_vars >>
request_vars == << total_distance, inventory, pc, stations_with_distance, fuel_stops,
                   current_position, current_fuel, warned, result, error, http_status,
                   iterations, first_answer >>

(* --------------------------------------------------------- pure functions *)

\* FuelStation.location_tuple: None unless latitude and longitude are both truthy.
Truthy(x) == x # NULL /\ x[1] # 0

HasLocationTuple(st) == Truthy(st.latitude) /\ Truthy(st.longitude)

\* get_candidate_stations: the rows with both coordinates set inside the route's
\* box, then those with a location tuple that is_near_route accepts; order kept.
InBoundingBoxQuery(st) ==
    st.latitude # NULL /\ st.longitude # NULL /\ st.in_box

IsCandidate(st) == HasLocationTuple(st) /\ st.near_route

\* Variant: every row of the inventory is a candidate.
GetCandidateStations_AllRows(rows) == rows

GetCandidateStations(rows) ==
    SelectSeq(SelectSeq(rows, InBoundingBoxQuery), IsCandidate)

\* The annotation of one candidate.
Annotate(st) == [station |-> st, distance |-> st.distance_along]

\* list.sort(key=distance): stable, ascending (insertion of each element after
\* every element whose key is <= its own).
SortKeyLE(a, b) == a.distance <= b.distance

RECURSIVE InsertSorted(_, _)
InsertSorted(s, x) ==
    IF s = << >> THEN << x >>
    ELSE IF SortKeyLE(s[Len(s)], x) THEN Append(s, x)
    ELSE Append(InsertSorted(SubSeq(s, 1, Len(s) - 1), x), s[Len(s)])

RECURSIVE SortByDistance(_)
SortByDistance(s) ==
    IF s = << >> THEN << >>
    ELSE InsertSorted(SortByDistance(SubSeq(s, 1, Len(s) - 1)), s[Len(s)])

\* Variant: a later element with an equal key replaces the best so far.
PriceBetter_OrEqual(a, b) == a.station.retail_price <= b.station.retail_price

\* min(seq, key=retail_price): the first element with the smallest key.
PriceBetter(a, b) == a.station.retail_price < b.station.retail_price

RECURSIVE MinByPrice(_)
MinByPrice(s) ==
    IF Len(s) = 1 THEN s[1]
    ELSE LET best == MinByPrice(SubSeq(s, 1, Len(s) - 1))
         IN  IF PriceBetter(s[Len(s)], best) THEN s[Len(s)] ELSE best

MaxReachable(pos, fuel) == pos + fuel * MPG

\* Variant: the destination at exactly max_reachable does not count as reached.
CanReachDestination_Strict(pos, fuel, total) == MaxReachable(pos, fuel) > total

\* Line 239: the destination is within reach.
CanReachDestination(pos, fuel, total) == MaxReachable(pos, fuel) >= total

\* Variant: every station ahead counts as reachable.
IsReachable_NoRangeCheck(pos, fuel, s) == pos < s.distance

\* Variant: a station at the current position counts as reachable.
IsReachable_AllowCurrent(pos, fuel, s) ==
    pos <= s.distance /\ s.distance <= MaxReachable(pos, fuel)

\* Variant: only stations within half the range count as reachable.
IsReachable_HalfRange(pos, fuel, s) ==
    pos < s.distance /\ 2 * (s.distance - pos) <= fuel * MPG

\* Line 245.
IsReachable(pos, fuel, s) == pos < s.distance /\ s.distance <= MaxReachable(pos, fuel)

Reachable(pos, fuel, cands) == SelectSeq(cands, LAMBDA s : IsReachable(pos, fuel, s))

\* Variant: the lower end of the optimal range is excluded.
InOptimalRange_StrictLower(pos, s) ==
    pos + OptimalMinOffset < s.distance /\ s.distance <= pos + OptimalMaxOffset

\* Line 261.
InOptimalRange(pos, s) ==
    pos + OptimalMinOffset <= s.distance /\ s.distance <= pos + OptimalMaxOffset

OptimalRangeStations(pos, fuel, cands) ==
    SelectSeq(Reachable(pos, fuel, cands), LAMBDA s : InOptimalRange(pos, s))

\* Variant: the cheapest reachable station, whatever the optimal range holds.
BestStation_IgnoreWindow(pos, fuel, cands) == MinByPrice(Reachable(pos, fuel, cands))

\* Lines 265-270.
BestStation(pos, fuel, cands) ==
    IF OptimalRangeStations(pos, fuel, cands) # << >>
    THEN MinByPrice(OptimalRangeStations(pos, fuel, cands))
    ELSE MinByPrice(Reachable(pos, fuel, cands))

\* Lines 273-276: distance / MPG and the two subtractions.
FuelUsed(distance_to_station) == distance_to_station \div MPG
FuelAtStation(fuel, distance_to_station) == fuel - FuelUsed(distance_to_station)
\* Variant: a whole tank is bought at every stop.
FuelToBuy_WholeTank(fuel, distance_to_station) == TANK_SIZE

FuelToBuy(fuel, distance_to_station) == TANK_SIZE - FuelAtStation(fuel, distance_to_station)

(* ------------------------------------------------ binary64 arithmetic *)
\* Natural numbers of any size: little-endian sequences of limbs below Base,
\* without leading zero limbs (zero is << >>).
Base == 2 ^ 14
\* Bits of a binary64 significand.
Precision == 53

RECURSIVE BNOfNat(_)
BNOfNat(n) == IF n = 0 THEN << >> ELSE << n % Base >> \o BNOfNat(n \div Base)

RECURSIVE BNTrim(_)
BNTrim(a) ==
    IF a = << >> THEN a
    ELSE IF a[Len(a)] = 0 THEN BNTrim(SubSeq(a, 1, Len(a) - 1)) ELSE a

\* a * k + c, for k and c below 2^16
RECURSIVE BNMulAdd(_, _, _)
BNMulAdd(a, k, c) ==
    IF a = << >> THEN BNOfNat(c)
    ELSE LET t == a[1] * k + c
         IN  << t % Base >> \o BNMulAdd(Tail(a), k, t \div Base)

BNMulSmall(a, k) == BNTrim(BNMulAdd(a, k, 0))

RECURSIVE BNAddC(_, _, _)
BNAddC(a, b, c) ==
    IF a = << >> /\ b = << >> THEN BNOfNat(c)
    ELSE LET x == IF a = << >> THEN 0 ELSE a[1]
             y == IF b = << >> THEN 0 ELSE b[1]
             t == x + y + c
         IN  << t % Base >> \o
             BNAddC(IF a = << >> THEN a ELSE Tail(a),
                    IF b = << >> THEN b ELSE Tail(b), t \div Base)

BNAdd(a, b) == BNAddC(a, b, 0)

\* a - b for a >= b
RECURSIVE BNSubB(_, _, _)
BNSubB(a, b, borrow) ==
    IF a = << >> THEN << >>
    ELSE LET y == IF b = << >> THEN 0 ELSE b[1]
             t == a[1] - y - borrow
         IN  << t % Base >> \o
             BNSubB(Tail(a), IF b = << >> THEN b ELSE Tail(b), IF t < 0 THEN 1 ELSE 0)

BNSub(a, b) == BNTrim(BNSubB(a, b, 0))

\* -1, 0, 1 as a < b, a = b, a > b
RECURSIVE BNCmpSameLen(_, _)
BNCmpSameLen(a, b) ==
    IF a = << >> THEN 0
    ELSE IF a[Len(a)] < b[Len(b)] THEN -1
    ELSE IF a[Len(a)] > b[Len(b)] THEN 1
    ELSE BNCmpSameLen(SubSeq(a, 1, Len(a) - 1), SubSeq(b, 1, Len(b) - 1))

BNCmp(a, b) ==
    IF Len(a) < Len(b) THEN -1
    ELSE IF Len(a) > Len(b) THEN 1
    ELSE BNCmpSameLen(a, b)

\* << quotient, remainder >> of a by k, 0 < k <= 10^5
RECURSIVE BNDivRem(_, _)
BNDivRem(a, k) ==
    IF a = << >> THEN << << >>, 0 >>
    ELSE LET hi == BNDivRem(Tail(a), k)
             t == hi[2] * Base + a[1]
         IN  << << t \div k >> \o hi[1], t % k >>

BNDivSmall(a, k) == BNTrim(BNDivRem(a, k)[1])

RECURSIVE BitLenNat(_)
BitLenNat(n) == IF n = 0 THEN 0 ELSE 1 + BitLenNat(n \div 2)

LimbBits == BitLenNat(Base) - 1

BNBitLen(a) ==
    IF a = << >> THEN 0 ELSE LimbBits * (Len(a) - 1) + BitLenNat(a[Len(a)])

BNShiftLeft(a, k) ==
    IF a = << >> THEN a
    ELSE BNMulSmall([i \in 1..(k \div LimbBits) |-> 0] \o a, 2 ^ (k % LimbBits))

BNShiftRight(a, k) ==
    IF Len(a) <= k \div LimbBits THEN << >>
    ELSE BNDivSmall(SubSeq(a, k \div LimbBits + 1, Len(a)), 2 ^ (k % LimbBits))

\* a * (the limbs of b from the i-th on), shifted to their place
RECURSIVE BNMulFrom(_, _, _)
BNMulFrom(a, b, i) ==
    IF i > Len(b) THEN << >>
    ELSE BNAdd(BNShiftLeft(BNMulSmall(a, b[i]), LimbBits * (i - 1)), BNMulFrom(a, b, i + 1))

BNMul(a, b) == BNTrim(BNMulFrom(a, b, 1))

BNIsOdd(a) == a # << >> /\ a[1] % 2 = 1

\* A non-negative binary64 value m * 2^e: m = 0 (and e = 0), or
\* 2^(Precision-1) <= m < 2^Precision.
FZero == [m |-> << >>, e |-> 0]

\* The binary64 nearest to (n / d) * 2^e, ties to even; n a natural, 0 < d <= 10^5.
RoundRatio(n, d, e) ==
    IF n = << >> THEN FZero
    ELSE LET up   == Precision + 1 + BitLenNat(d) - BNBitLen(n)
             k    == IF up > 0 THEN up ELSE 0
             qr   == BNDivRem(BNShiftLeft(n, k), d)
             q    == BNTrim(qr[1])
             sh   == BNBitLen(q) - Precision
             m0   == BNShiftRight(q, sh)
             low  == BNSub(q, BNShiftLeft(m0, sh))
             c    == BNCmp(low, BNShiftLeft(<< 1 >>, sh - 1))
             upw  == c > 0 \/ (c = 0 /\ (qr[2] # 0 \/ BNIsOdd(m0)))
             m1   == IF upw THEN BNAdd(m0, << 1 >>) ELSE m0
         IN  IF BNBitLen(m1) > Precision
             THEN [m |-> BNShiftRight(m1, 1), e |-> e - k + sh + 1]
             ELSE [m |-> m1, e |-> e - k + sh]

FloatOfNat(n) == RoundRatio(BNOfNat(n), 1, 0)
\* float(Decimal) of a DecimalField(decimal_places=5) value of p * 1e-5
FloatOfDecimal5(p) == RoundRatio(BNOfNat(p), 100000, 0)
FMul(x, y) == RoundRatio(BNMul(x.m, y.m), 1, x.e + y.e)
FAdd(x, y) ==
    LET e == IF x.e < y.e THEN x.e ELSE y.e
    IN  RoundRatio(BNAdd(BNShiftLeft(x.m, x.e - e), BNShiftLeft(y.m, y.e - e)), 1, e)

\* x = num / den exactly, as real numbers (num, den naturals, 0 < den <= 10^5)
FEqualsRatio(x, num, den) ==
    IF x.e >= 0
    THEN BNShiftLeft(BNMulSmall(x.m, den), x.e) = BNOfNat(num)
    ELSE BNMulSmall(x.m, den) = BNShiftLeft(BNOfNat(num), 0 - x.e)

\* Line 284: float(retail_price) * fuel_to_buy, the 'cost' entry of a stop.
Cost(retail_price, fuel_to_buy) ==
    FMul(FloatOfDecimal5(retail_price), FloatOfNat(fuel_to_buy))

\* Cost, tabulated over the prices of the inventories and the gallons a leg
\* between two positions of Dists can take.
CostTable ==
    [p \in { st.retail_price : st \in StationSet }
           \cup { ScenarioStations[i].retail_price : i \in DOMAIN ScenarioStations } |->
        [g \in { d \div MPG : d \in 0..ScenarioTotal } |-> Cost(p, g)]]

\* Lines 279-286: the stop appended for best_station.
FuelStop(pos, fuel, best) ==
    [station |-> best.station,
     distance_from_start |-> best.distance,
     distance_from_previous |-> best.distance - pos,
     fuel_needed |-> FuelToBuy(fuel, best.distance - pos),
     cost |-> CostTable[best.station.retail_price][FuelToBuy(fuel, best.distance - pos)],
     location |-> [lat |-> best.station.latitude[1], lng |-> best.station.longitude[1]]]

\* Line 314: sum(stop['cost'] for stop in fuel_stops), from the integer 0.
RECURSIVE TotalCost(_)
TotalCost(stops) ==
    IF stops = << >> THEN FZero
    ELSE FAdd(TotalCost(SubSeq(stops, 1, Len(stops) - 1)), stops[Len(stops)].cost)

(* ------------------------------------------------------- route geometry *)

\* Coordinates are whole numbers of 1/80 degree. Those of the model are
\* multiples of 1/16 degree, which binary64 holds exactly, as it does their
\* sums and differences.
DegreeUnits == 80

\* Real numbers >= 0 in fixed point: naturals counting units of 2^-FxBits.
\* The distances of the model below are the great-circle distances of the
\* formula to within 10^-6 mile; those binary64 computes are too.
FxLimbs == 4
FxBits == FxLimbs * LimbBits
FxOne == BNShiftLeft(<< 1 >>, FxBits)
FxMul(a, b) == BNShiftRight(BNMul(a, b), FxBits)
\* math.pi: floor(pi * 2^56)
FxPi == << 8968, 8726, 13992, 2319, 3 >>

Abs(x) == IF x < 0 THEN 0 - x ELSE x
Min(a, b) == IF a <= b THEN a ELSE b
Max(a, b) == IF a >= b THEN a ELSE b

\* math.radians(|x|), x in coordinate units
FxRadians(x) == BNDivSmall(BNMulSmall(FxPi, Abs(x)), 180 * DegreeUnits)

\* Terms of a series, at most.
SeriesTerms == 12

\* term - term * x2 / (d (d + 1)) + ...: the sums of the terms added and of
\* those subtracted.
RECURSIVE AltSeries(_, _, _, _, _)
AltSeries(term, x2, d, n, plus) ==
    IF n = 0 \/ term = << >> THEN [pos |-> << >>, neg |-> << >>]
    ELSE LET rest == CHOOSE r \in { AltSeries(t, x2, d + 2, n - 1, ~plus) :
                                      t \in { BNDivSmall(FxMul(term, x2), d * (d + 1)) } } : TRUE
         IN  IF plus THEN [pos |-> BNAdd(term, rest.pos), neg |-> rest.neg]
             ELSE [pos |-> rest.pos, neg |-> BNAdd(term, rest.neg)]

\* math.sin and math.cos, for 0 <= x <= pi / 2
FxSin(x) == LET s == AltSeries(x, FxMul(x, x), 2, SeriesTerms, TRUE) IN BNSub(s.pos, s.neg)
FxCos(x) == LET s == AltSeries(FxOne, FxMul(x, x), 1, SeriesTerms, TRUE) IN BNSub(s.pos, s.neg)

\* floor(sqrt(n)), bit by bit from 2^bit down
RECURSIVE ISqrtFrom(_, _, _)
ISqrtFrom(n, r, bit) ==
    IF bit < 0 THEN r
    ELSE CHOOSE s \in { ISqrtFrom(n, IF BNCmp(BNMul(c, c), n) <= 0 THEN c ELSE r, bit - 1) :
                         c \in { BNAdd(r, BNShiftLeft(<< 1 >>, bit)) } } : TRUE

\* math.sqrt
FxSqrt(a) ==
    CHOOSE s \in { ISqrtFrom(n, << >>, BNBitLen(n) \div 2) : n \in { BNShiftLeft(a, FxBits) } } : TRUE

\* x + x^3 / 6 + 3 x^5 / 40 + ...
RECURSIVE AsinSeries(_, _, _, _)
AsinSeries(term, x2, j, n) ==
    IF n = 0 \/ term = << >> THEN << >>
    ELSE CHOOSE s \in { BNAdd(term, AsinSeries(t, x2, j + 1, n - 1)) :
                         t \in { BNDivSmall(BNMulSmall(FxMul(term, x2), (2 * j + 1) * (2 * j + 1)),
                                             (2 * j + 2) * (2 * j + 3)) } } : TRUE

\* math.asin, for 0 <= x <= 1/4 (points less than 2000 miles apart)
FxAsin(x) == CHOOSE s \in { AsinSeries(v, FxMul(v, v), 0, 2 * SeriesTerms) : v \in { x } } : TRUE

RECURSIVE BNToNat(_)
BNToNat(a) == IF a = << >> THEN 0 ELSE a[1] + Base * BNToNat(Tail(a))

\* R, the earth's radius in miles (line 63)
EarthRadius == 3959
\* Distances are whole numbers of 10^-6 mile.
MileUnits == 1000 * 1000

\* haversine_distance, lines 63-74
Haversine(lat1, lon1, lat2, lon2) ==
    LET sdlat == FxSin(BNDivSmall(FxRadians(lat2 - lat1), 2))
        sdlon == FxSin(BNDivSmall(FxRadians(lon2 - lon1), 2))
        a == BNAdd(FxMul(sdlat, sdlat),
                   FxMul(FxMul(FxCos(FxRadians(lat1)), FxCos(FxRadians(lat2))), FxMul(sdlon, sdlon)))
    IN  CHOOSE d \in { BNToNat(BNShiftRight(BNMulSmall(BNMulSmall(BNMulSmall(c, 2 * EarthRadius),
                                                                  1000), 1000), FxBits)) :
                          c \in { FxAsin(r) : r \in { FxSqrt(v) : v \in { a } } } } : TRUE

\* A route segment; a point.
Segment(lat1, lng1, lat2, lng2, miles) ==
    [start |-> [lat |-> lat1, lng |-> lng1], end |-> [lat |-> lat2, lng |-> lng2],
     distance |-> miles]
Point(plat, plng) == [latitude |-> Some(plat), longitude |-> Some(plng)]

\* The routes the geometry is asked about: along the equator from (0,0) to
\* (0,10) in one segment; from (0,0) to (0,5) in three; along latitude 40 for
\* one degree; north along a meridian in two segments; out and back; none.
EquatorRoute == << Segment(0, 0, 0, 800, 690) >>
ThreeSegmentRoute ==
    << Segment(0, 0, 0, 80, 69), Segment(0, 80, 0, 240, 138), Segment(0, 240, 0, 400, 138) >>
ParallelRoute == << Segment(3200, -8000, 3200, -7920, 53) >>
MeridianRoute ==
    << Segment(3000, -8000, 3080, -8000, 69), Segment(3080, -8000, 3200, -8000, 104) >>
OutAndBackRoute == << Segment(0, 0, 0, 80, 69), Segment(0, 80, 0, 0, 69) >>
GeoRoutes ==
    { EquatorRoute, ThreeSegmentRoute, ParallelRoute, MeridianRoute, OutAndBackRoute, << >> }

\* The points each route is asked about.
Grid(lats, lngs) == { Point(plat, plng) : plat \in lats, plng \in lngs }
PointsOf(route) ==
    IF route = EquatorRoute
    THEN Grid({0, 20, 35, 400}, {-60, -40, -35, 0, 20, 400, 800, 835, 840, 860})
    ELSE IF route = ThreeSegmentRoute
    THEN Grid({0}, {0, 20, 40, 60, 80, 120, 160, 200, 240, 320, 400}) \cup Grid({20}, {40, 160})
    ELSE IF route = ParallelRoute
    THEN Grid({3200, 3220}, {-8060, -8035, -8000, -7960, -7920, -7885, -7860})
    ELSE IF route = MeridianRoute
    THEN Grid({2940, 2965, 3000, 3040, 3080, 3140, 3200, 3235, 3260}, {-8000, -7965})
    ELSE IF route = OutAndBackRoute
    THEN Grid({0}, {0, 20, 40, 60, 80})
    ELSE Grid({0}, {0})
\* Stations without a coordinate.
UnlocatedPoints ==
    { [latitude |-> NULL, longitude |-> Some(400)], [latitude |-> Some(0), longitude |-> NULL] }

\* haversine_distance between the points and the segment ends of a route,
\* computed once for the route (the variable haversine holds it).
Ends(route) ==
    UNION { { route[i].start, route[i].end } : i \in DOMAIN route }
HaversineTable(route) ==
    [k \in { << p.latitude[1], p.longitude[1], e.lat, e.lng >> :
               p \in PointsOf(route), e \in Ends(route) } |->
        Haversine(k[1], k[2], k[3], k[4])]
HaversineDistance(lat1, lon1, lat2, lon2) == haversine[<< lat1, lon1, lat2, lon2 >>]

SEARCH_CORRIDOR_WIDTH == 25

\* is_near_route, lines 139-145: the box of a segment, 0.4 degrees around it.
SegmentBoxMargin == (4 * DegreeUnits) \div 10
InSegmentBox(segment, lat, lng) ==
    /\ Min(segment.start.lat, segment.end.lat) - SegmentBoxMargin <= lat
    /\ lat <= Max(segment.start.lat, segment.end.lat) + SegmentBoxMargin
    /\ Min(segment.start.lng, segment.end.lng) - SegmentBoxMargin <= lng
    /\ lng <= Max(segment.start.lng, segment.end.lng) + SegmentBoxMargin

\* is_near_route, lines 148-152: the smaller distance to the ends of a segment.
EndpointDistance(segment, lat, lng) ==
    Min(HaversineDistance(lat, lng, segment.start.lat, segment.start.lng),
        HaversineDistance(lat, lng, segment.end.lat, segment.end.lng))

\* is_near_route
RECURSIVE IsNearRoute(_, _, _)
IsNearRoute(segs, lat, lng) ==
    IF segs = << >> THEN FALSE
    ELSE IF ~InSegmentBox(Head(segs), lat, lng) THEN IsNearRoute(Tail(segs), lat, lng)
    ELSE IF EndpointDistance(Head(segs), lat, lng) <= SEARCH_CORRIDOR_WIDTH * MileUnits THEN TRUE
    ELSE IsNearRoute(Tail(segs), lat, lng)

\* segment.get('distance', 0)
SegmentLength(segment) == IF "distance" \in DOMAIN segment THEN segment.distance ELSE 0

\* Variant: a point as far from the start as from the end counts for the start.
SegmentPosition_StartOnTie(cumulative_distance, segment, dist_to_start, dist_to_end) ==
    IF dist_to_start <= dist_to_end
    THEN cumulative_distance
    ELSE cumulative_distance + SegmentLength(segment)

\* Variant: the two positions are exchanged.
SegmentPosition_Exchanged(cumulative_distance, segment, dist_to_start, dist_to_end) ==
    IF dist_to_start < dist_to_end
    THEN cumulative_distance + SegmentLength(segment)
    ELSE cumulative_distance

\* get_distance_along_route, lines 114-118
SegmentPosition(cumulative_distance, segment, dist_to_start, dist_to_end) ==
    IF dist_to_start < dist_to_end
    THEN cumulative_distance
    ELSE cumulative_distance + SegmentLength(segment)

\* get_distance_along_route, lines 92-122: the loop from the segments left, with
\* min_distance (NULL: float('inf')), best_segment_distance, cumulative_distance.
RECURSIVE DistanceAlongFrom(_, _, _, _, _, _)
DistanceAlongFrom(segs, lat, lng, min_distance, best_segment_distance, cumulative_distance) ==
    IF segs = << >> THEN best_segment_distance
    ELSE LET segment == Head(segs)
             dist_to_start ==
                 HaversineDistance(lat, lng, segment.start.lat, segment.start.lng)
             dist_to_end == HaversineDistance(lat, lng, segment.end.lat, segment.end.lng)
             segment_dist == Min(dist_to_start, dist_to_end)
             closer == min_distance = NULL \/ segment_dist < min_distance[1]
         IN  DistanceAlongFrom(
                 Tail(segs), lat, lng,
                 IF closer THEN Some(segment_dist) ELSE min_distance,
                 IF closer
                 THEN SegmentPosition(cumulative_distance, segment, dist_to_start, dist_to_end)
                 ELSE best_segment_distance,
                 cumulative_distance + SegmentLength(segment))

GetDistanceAlongRoute(segs, lat, lng) == DistanceAlongFrom(segs, lat, lng, NULL, 0, 0)

\* get_candidate_stations, lines 166-174: the box of the route, 0.5 degrees
\* around the ends of all its segments.
RECURSIVE MinOf(_)
MinOf(S) == LET x == CHOOSE y \in S : TRUE IN IF S = { x } THEN x ELSE Min(x, MinOf(S \ { x }))
RECURSIVE MaxOf(_)
MaxOf(S) == LET x == CHOOSE y \in S : TRUE IN IF S = { x } THEN x ELSE Max(x, MaxOf(S \ { x }))

\* Variant: the margin is one degree.
RouteBoxMargin_OneDegree == DegreeUnits

\* Variant: no margin.
RouteBoxMargin_None == (0 * DegreeUnits) \div 10

RouteBoxMargin == (5 * DegreeUnits) \div 10
RouteBox(route) ==
    [min_lat |-> MinOf({ e.lat : e \in Ends(route) }) - RouteBoxMargin,
     max_lat |-> MaxOf({ e.lat : e \in Ends(route) }) + RouteBoxMargin,
     min_lng |-> MinOf({ e.lng : e \in Ends(route) }) - RouteBoxMargin,
     max_lng |-> MaxOf({ e.lng : e \in Ends(route) }) + RouteBoxMargin]

\* get_candidate_stations, lines 177-184: whether the lookup returns a row.
InRouteBoxQuery(route, row) ==
    /\ row.latitude # NULL
    /\ row.longitude # NULL
    /\ RouteBox(route).min_lat <= row.latitude[1]
    /\ row.latitude[1] <= RouteBox(route).max_lat
    /\ RouteBox(route).min_lng <= row.longitude[1]
    /\ row.longitude[1] <= RouteBox(route).max_lng

(* ------------------------------------------------------------------ init *)

\* The state of a request before optimize is called, and of the geometry
\* when nothing is asked of it.
RequestStart ==
    /\ pc = "start"
    /\ stations_with_distance = << >>
    /\ fuel_stops = << >>
    /\ current_position = 0
    /\ current_fuel = TANK_SIZE
    /\ warned = FALSE
    /\ result = NULL
    /\ error = "none"
    /\ http_status = 0
    /\ iterations = 0
    /\ first_answer = NULL

GeometryIdle ==
    /\ point = NULL
    /\ near = NULL
    /\ along = NULL
    /\ in_query = NULL
    /\ haversine = << >>
    /\ candidate = NULL

\* No POST received, nothing cached, no route looked up, no location geocoded,
\* no station imported.
ServiceIdle ==
    /\ body = NULL
    /\ view_pc = "idle"
    /\ cache = [key \in {} |-> NULL]
    /\ map_pc = "idle"
    /\ last_call = NULL
    /\ requests = 0
    /\ geocoded = NULL
    /\ api_calls_made = 0
    /\ table = [opis_id \in {} |-> NULL]
    /\ csv_file = NULL

\* __init__ keeps route_data['distance'] and route_data['segments'] as they
\* come: a route without segments is accepted too (its inventory, which is
\* never looked up, is left empty).
Init ==
    /\ \/ /\ inventory \in { WithIds(rows) : rows \in Inventories }
          /\ total_distance \in RouteLengths
          /\ segments = OneSegment
       \/ /\ inventory = WithIds(ScenarioStations)
          /\ total_distance = ScenarioTotal
          /\ segments = OneSegment
       \/ /\ inventory = << >>
          /\ total_distance \in RouteLengths
          /\ segments = << >>
    /\ RequestStart
    /\ GeometryIdle
    /\ ServiceIdle

(* --------------------------------------------------------------- actions *)

\* get_candidate_stations, lines 165-174: without segments all_coords is empty
\* and min() raises ValueError ("min() arg is an empty sequence") before the
\* lookup; optimize lets it through.
OptimizeNoSegments ==
    /\ pc = "start"
    /\ segments = << >>
    /\ error' = "ValueError"
    /\ pc' = "raised"
    /\ UNCHANGED << total_distance, segments, inventory, stations_with_distance, fuel_stops,
                    current_position, current_fuel, warned, result, http_status,
                    iterations, first_answer, geo_vars, service_vars >>

\* Variant: with no candidate optimize goes on to the totals of an empty plan.
OptimizeNoCandidates_ReturnsEmpty ==
    /\ pc = "start"
    /\ segments # << >>
    /\ GetCandidateStations(inventory) = << >>
    /\ pc' = "totals"
    /\ UNCHANGED << total_distance, inventory, stations_with_distance, fuel_stops,
                    current_position, current_fuel, warned, result, error, http_status >>
    /\ UNCHANGED iterations
    /\ UNCHANGED << segments, first_answer, geo_vars, service_vars >>

\* optimize, lines 305-308: no candidate, ValueError.
OptimizeNoCandidates ==
    /\ pc = "start"
    /\ segments # << >>
    /\ GetCandidateStations(inventory) = << >>
    /\ error' = "ValueError"
    /\ pc' = "raised"
    /\ UNCHANGED << total_distance, inventory, stations_with_distance, fuel_stops,
                    current_position, current_fuel, warned, result, http_status >>
    /\ UNCHANGED iterations
    /\ UNCHANGED << segments, first_answer, geo_vars, service_vars >>

\* optimize, line 311, and select_optimal_stops up to the loop, lines 215-232.
BeginSelection ==
    /\ pc = "start"
    /\ segments # << >>
    /\ GetCandidateStations(inventory) # << >>
    /\ stations_with_distance' =
           SortByDistance([i \in 1..Len(GetCandidateStations(inventory)) |->
                              Annotate(GetCandidateStations(inventory)[i])])
    /\ fuel_stops' = << >>
    /\ current_position' = 0
    /\ current_fuel' = TANK_SIZE
    /\ pc' = "loop"
    /\ UNCHANGED << total_distance, inventory, warned, result, error, http_status >>
    /\ iterations' = 0
    /\ UNCHANGED << segments, first_answer, geo_vars, service_vars >>

\* line 234: the while condition is false.
LoopExit ==
    /\ pc = "loop"
    /\ ~(current_position < total_distance)
    /\ pc' = "totals"
    /\ UNCHANGED << total_distance, inventory, stations_with_distance, fuel_stops,
                    current_position, current_fuel, warned, result, error, http_status >>
    /\ UNCHANGED iterations
    /\ UNCHANGED << segments, first_answer, geo_vars, service_vars >>

\* lines 236-240: the destination is within reach.
DestinationReachable ==
    /\ pc = "loop"
    /\ current_position < total_distance
    /\ CanReachDestination(current_position, current_fuel, total_distance)
    /\ pc' = "totals"
    /\ UNCHANGED << total_distance, inventory, stations_with_distance, fuel_stops,
                    current_position, current_fuel, warned, result, error, http_status >>
    /\ iterations' = iterations + 1
    /\ UNCHANGED << segments, first_answer, geo_vars, service_vars >>

\* Variant: with no station in reach, a forced stop at the nearest station ahead.
NoReachable_Rescue ==
    /\ pc = "loop"
    /\ current_position < total_distance
    /\ ~CanReachDestination(current_position, current_fuel, total_distance)
    /\ Reachable(current_position, current_fuel, stations_with_distance) = << >>
    /\ LET ahead == SelectSeq(stations_with_distance,
                              LAMBDA s : s.distance > current_position)
       IN  IF ahead # << >>
           THEN /\ fuel_stops' =
                      Append(fuel_stops, FuelStop(current_position, current_fuel, ahead[1]))
                /\ current_position' = ahead[1].distance
                /\ current_fuel' = TANK_SIZE
                /\ UNCHANGED << pc, warned >>
           ELSE /\ warned' = TRUE
                /\ pc' = "totals"
                /\ UNCHANGED << fuel_stops, current_position, current_fuel >>
    /\ UNCHANGED << total_distance, inventory, stations_with_distance, result, error,
                    http_status >>
    /\ iterations' = iterations + 1
    /\ UNCHANGED << segments, first_answer, geo_vars, service_vars >>

\* lines 243-252: no station in reach, warning and break.
NoReachable ==
    /\ pc = "loop"
    /\ current_position < total_distance
    /\ ~CanReachDestination(current_position, current_fuel, total_distance)
    /\ Reachable(current_position, current_fuel, stations_with_distance) = << >>
    /\ warned' = TRUE
    /\ pc' = "totals"
    /\ UNCHANGED << total_distance, inventory, stations_with_distance, fuel_stops,
                    current_position, current_fuel, result, error, http_status >>
    /\ iterations' = iterations + 1
    /\ UNCHANGED << segments, first_answer, geo_vars, service_vars >>

\* Variant: the stop is appended and the tank filled, the position is kept.
TakeStop_KeepsPosition ==
    /\ pc = "loop"
    /\ current_position < total_distance
    /\ ~CanReachDestination(current_position, current_fuel, total_distance)
    /\ Reachable(current_position, current_fuel, stations_with_distance) # << >>
    /\ LET best == BestStation(current_position, current_fuel, stations_with_distance)
       IN  /\ fuel_stops' = Append(fuel_stops, FuelStop(current_position, current_fuel, best))
           /\ current_fuel' = TANK_SIZE
    /\ UNCHANGED << total_distance, inventory, pc, stations_with_distance, warned,
                    result, error, http_status, current_position >>
    /\ iterations' = iterations + 1
    /\ UNCHANGED << segments, first_answer, geo_vars, service_vars >>

\* lines 254-290: choose the best station, append the stop, fill the tank.
TakeStop ==
    /\ pc = "loop"
    /\ current_position < total_distance
    /\ ~CanReachDestination(current_position, current_fuel, total_distance)
    /\ Reachable(current_position, current_fuel, stations_with_distance) # << >>
    /\ LET best == BestStation(current_position, current_fuel, stations_with_distance)
       IN  /\ fuel_stops' = Append(fuel_stops, FuelStop(current_position, current_fuel, best))
           /\ current_position' = best.distance
           /\ current_fuel' = TANK_SIZE
    /\ UNCHANGED << total_distance, inventory, pc, stations_with_distance, warned,
                    result, error, http_status >>
    /\ iterations' = iterations + 1
    /\ UNCHANGED << segments, first_answer, geo_vars, service_vars >>

\* The fuel bought at the stops.
RECURSIVE FuelBought(_)
FuelBought(stops) ==
    IF stops = << >> THEN 0
    ELSE FuelBought(SubSeq(stops, 1, Len(stops) - 1)) + stops[Len(stops)].fuel_needed

\* Variant: total_fuel_needed is the fuel bought at the stops.
Totals_FuelBought ==
    /\ pc = "totals"
    /\ result' = Some([fuel_stops |-> fuel_stops,
                  total_fuel_cost |-> TotalCost(fuel_stops),
                  total_fuel_needed |-> FuelBought(fuel_stops),
                  num_fuel_stops |-> Len(fuel_stops)])
    /\ pc' = "returned"
    /\ UNCHANGED << total_distance, inventory, stations_with_distance, fuel_stops,
                    current_position, current_fuel, warned, error, http_status >>
    /\ UNCHANGED iterations
    /\ UNCHANGED << segments, first_answer, geo_vars, service_vars >>

\* optimize, lines 313-325. total_distance / MPG is exact for the route lengths
\* of the model, multiples of MPG.
Totals ==
    /\ pc = "totals"
    /\ result' = Some([fuel_stops |-> fuel_stops,
                  total_fuel_cost |-> TotalCost(fuel_stops),
                  total_fuel_needed |-> total_distance \div MPG,
                  num_fuel_stops |-> Len(fuel_stops)])
    /\ pc' = "returned"
    /\ UNCHANGED << total_distance, inventory, stations_with_distance, fuel_stops,
                    current_position, current_fuel, warned, error, http_status >>
    /\ UNCHANGED iterations
    /\ UNCHANGED << segments, first_answer, geo_vars, service_vars >>

\* optimize_route, lines 117-146: the result is answered with 200.
RespondOk ==
    /\ pc = "returned"
    /\ http_status' = 200
    /\ pc' = "responded"
    /\ UNCHANGED << total_distance, inventory, stations_with_distance, fuel_stops,
                    current_position, current_fuel, warned, result, error >>
    /\ UNCHANGED iterations
    /\ UNCHANGED << segments, first_answer, geo_vars, service_vars >>

\* optimize_route, lines 148-156: a ValueError is answered with 400.
RespondValueError ==
    /\ pc = "raised"
    /\ error = "ValueError"
    /\ http_status' = 400
    /\ pc' = "responded"
    /\ UNCHANGED << total_distance, inventory, stations_with_distance, fuel_stops,
                    current_position, current_fuel, warned, result, error >>
    /\ UNCHANGED iterations
    /\ UNCHANGED << segments, first_answer, geo_vars, service_vars >>

Next ==
    \/ OptimizeNoSegments
    \/ OptimizeNoCandidates
    \/ BeginSelection
    \/ LoopExit
    \/ DestinationReachable
    \/ NoReachable
    \/ TakeStop
    \/ Totals
    \/ RespondOk
    \/ RespondValueError

Spec == Init /\ [][Next]_vars

(* ------------------------------------------ the same request asked twice *)

\* The orders the lookup can return the rows of an inventory in.
LookupOrders(rows) ==
    { o \in { [i \in 1..Len(rows) |-> rows[f[i]]] : f \in Permutations(1..Len(rows)) } :
        OrderedByPrice(o) }

\* optimize_route is asked the same route again, the station table unchanged:
\* the first answer is kept for comparison, the lookup returns the rows in one
\* of its orders, and optimize starts afresh.
LookupAgain ==
    /\ pc = "responded"
    /\ first_answer = NULL
    /\ first_answer' = Some([result |-> result, error |-> error, http_status |-> http_status])
    /\ inventory' \in LookupOrders(inventory)
    /\ pc' = "start"
    /\ stations_with_distance' = << >>
    /\ fuel_stops' = << >>
    /\ current_position' = 0
    /\ current_fuel' = TANK_SIZE
    /\ warned' = FALSE
    /\ result' = NULL
    /\ error' = "none"
    /\ http_status' = 0
    /\ iterations' = 0
    /\ UNCHANGED << total_distance, segments, geo_vars, service_vars >>

TwiceInit ==
    /\ \/ /\ inventory \in { WithIds(rows) : rows \in TwiceInventories }
          /\ total_distance \in TwiceLengths
          /\ segments = OneSegment
       \/ /\ inventory = << >>
          /\ total_distance \in TwiceLengths
          /\ segments = << >>
    /\ RequestStart
    /\ GeometryIdle
    /\ ServiceIdle

TwiceNext ==
    \/ Next
    \/ LookupAgain

TwiceSpec == TwiceInit /\ [][TwiceNext]_vars

(* ------------------------------------------- the route geometry, asked *)

\* A RouteOptimizer built on one of the routes, and a point to ask it about;
\* no request is running.
GeoInit ==
    /\ segments \in GeoRoutes
    /\ haversine = HaversineTable(segments)
    /\ point \in PointsOf(segments) \cup UnlocatedPoints
    /\ near = NULL
    /\ along = NULL
    /\ in_query = NULL
    /\ candidate = NULL
    /\ total_distance = 0
    /\ inventory = << >>
    /\ RequestStart
    /\ ServiceIdle

\* is_near_route(lat, lng), of a point with both coordinates.
AskNearRoute ==
    /\ point # NULL
    /\ point.latitude # NULL
    /\ point.longitude # NULL
    /\ near = NULL
    /\ near' = Some(IsNearRoute(segments, point.latitude[1], point.longitude[1]))
    /\ UNCHANGED << segments, point, along, in_query, haversine, candidate, request_vars,
                    service_vars >>

\* get_distance_along_route((lat, lng))
AskDistanceAlong ==
    /\ point # NULL
    /\ point.latitude # NULL
    /\ point.longitude # NULL
    /\ along = NULL
    /\ along' = Some(GetDistanceAlongRoute(segments, point.latitude[1], point.longitude[1]))
    /\ UNCHANGED << segments, point, near, in_query, haversine, candidate, request_vars,
                    service_vars >>

\* get_candidate_stations, lines 165-184: the lookup, for a station at point.
\* (Without segments min() raises before the lookup.)
AskLookup ==
    /\ point # NULL
    /\ segments # << >>
    /\ in_query = NULL
    /\ in_query' = Some(InRouteBoxQuery(segments, point))
    /\ UNCHANGED << segments, point, near, along, haversine, candidate, request_vars,
                    service_vars >>

\* get_candidate_stations, lines 165-195, with one station at point in the
\* table: whether the station is returned. It is when the lookup returns its
\* row, its location_tuple is truthy and is_near_route accepts it.
AskCandidate ==
    /\ point # NULL
    /\ segments # << >>
    /\ candidate = NULL
    /\ candidate' = Some(IF InRouteBoxQuery(segments, point) /\ HasLocationTuple(point)
                         THEN IsNearRoute(segments, point.latitude[1], point.longitude[1])
                         ELSE FALSE)
    /\ UNCHANGED << segments, point, near, along, in_query, haversine, request_vars,
                    service_vars >>

GeoNext ==
    \/ AskNearRoute
    \/ AskDistanceAlong
    \/ AskLookup
    \/ AskCandidate

GeoSpec == GeoInit /\ [][GeoNext]_vars

(* ------------------------------------------- map client and shared cache *)

\* Strings are sequences of characters.
Str(chars) == chars
\* hashlib.md5(...).hexdigest(): different strings of the model have different
\* digests.
Md5(string) == << "md5", string >>

\* Location strings of the requests, and the (start, finish) pairs asked.
LocA == << "a" >>
LocAB == << "a", ":", "b" >>
LocBC == << "b", ":", "c" >>
LocC == << "c" >>
Locations == { LocA, LocAB, LocBC, LocC }
RequestPairs == { << LocAB, LocC >>, << LocA, LocBC >>, << LocA, LocC >> }

\* Route lookups a behaviour starts, at most.
MaxRequests == 3
\* Value of api_calls_made beyond which the geocoding client is not followed.
MaxApiCalls == 3

\* A cache key: a prefix followed by a digest.
\* get_route, line 213: md5 of f"route:{start}:{finish}", without prefix.
RouteCacheKey(start, finish) ==
    [prefix |-> "",
     digest |-> Md5(Str(<< "r", "o", "u", "t", "e", ":" >>) \o start \o Str(<< ":" >>) \o finish)]
\* geocode_location, line 48: f"geocode:{md5(location)}".
GeocodeCacheKey(location) == [prefix |-> "geocode:", digest |-> Md5(location)]

\* cache.set and the expiry of an entry.
CacheSet(c, key, value) == [k \in DOMAIN c \cup { key } |-> IF k = key THEN value ELSE c[k]]
CacheExpire(c, key) == [k \in DOMAIN c \ { key } |-> c[k]]

\* Variant: the cache is never found to hold the key.
CacheHit_Never(c, key) == FALSE

\* cache.get(key) followed by 'if cached:': the values stored (coordinate pairs,
\* route dicts) are never falsy.
CacheHit(c, key) == key \in DOMAIN c

\* What a geocoding provider does with one request: it raises (network, HTTP
\* status, unreadable body), answers without a result, answers with a result,
\* or answers with a result whose coordinates cannot be read.
ProviderOutcomes == { "raises", "none", "result", "malformed" }

\* _call_google, lines 99-112, and _call_nominatim, lines 118-132: whether the
\* call raises, and what it adds to api_calls_made. The counter is incremented
\* (lines 110, 130) before the coordinates are read (lines 111, 131).
CallRaises(outcome) == outcome \in { "raises", "malformed" }
CallCounts(outcome) == IF outcome \in { "result", "malformed" } THEN 1 ELSE 0
CallReturnsCoords(outcome) == outcome = "result"

\* _live_geocode, lines 71-93: the providers consulted, in order, the one whose
\* coordinates are returned, and what is added to api_calls_made.
LiveGeocode(google_key, google, nominatim) ==
    IF google_key /\ CallReturnsCoords(google)
    THEN [consulted |-> << "google" >>, returned_by |-> "google", raised |-> FALSE,
          added |-> CallCounts(google)]
    ELSE LET before == IF google_key THEN << "google" >> ELSE << >>
             counted == IF google_key THEN CallCounts(google) ELSE 0
         IN  IF CallReturnsCoords(nominatim)
             THEN [consulted |-> Append(before, "nominatim"), returned_by |-> "nominatim",
                   raised |-> FALSE, added |-> counted + CallCounts(nominatim)]
             ELSE [consulted |-> before \o << "nominatim", "mock" >>, returned_by |-> "mock",
                   raised |-> FALSE, added |-> counted + CallCounts(nominatim)]

\* The coordinates geocoded for a location.
Coords(location) == [of |-> location]

\* The provider answers met while a route is looked up.
GeocodeCases ==
    { [google_key |-> TRUE, google |-> "result", nominatim |-> "raises"],
      [google_key |-> FALSE, google |-> "raises", nominatim |-> "result"],
      [google_key |-> FALSE, google |-> "raises", nominatim |-> "raises"] }

\* geocode_location of the live client, lines 47-65, with use_cache and without
\* use_mock: the cache afterwards, the coordinates, the calls of _live_geocode
\* and what is added to api_calls_made.
GeocodeLocation(c, location, case) ==
    IF CacheHit(c, GeocodeCacheKey(location))
    THEN [cache |-> c, coords |-> c[GeocodeCacheKey(location)], lookups |-> 0, added |-> 0]
    ELSE [cache |-> CacheSet(c, GeocodeCacheKey(location), Coords(location)),
          coords |-> Coords(location), lookups |-> 1,
          added |-> LiveGeocode(case.google_key, case.google, case.nominatim).added]

\* MockMapAPIClient.geocode_location, lines 168-174: no cache, no counter.
MockGeocodeLocation(c, location) ==
    [cache |-> c, coords |-> Coords(location), lookups |-> 1, added |-> 0]

\* The dict get_route builds (lines 226-233); route_from stands for the
\* polyline and segments, which tell an OSRM route from a mock one.
RouteResult(start, finish, start_coords, finish_coords, route_from, calls) ==
    [start_location |-> [coords |-> start_coords, address |-> start],
     finish_location |-> [coords |-> finish_coords, address |-> finish],
     route_from |-> route_from, map_api_calls |-> calls]

\* A call of get_route: its client and arguments, whether it is running, has
\* returned or has raised, whether the route cache was hit, the dict returned,
\* the geocoding lookups and routing calls made, and the client's
\* api_calls_made at the end.
Call(client, start, finish, outcome, hit, res, lookups, routings, calls) ==
    [client |-> client, start |-> start, finish |-> finish, outcome |-> outcome, hit |-> hit,
     result |-> res, geocode_lookups |-> lookups, routing_calls |-> routings,
     api_calls_made |-> calls]

\* get_route, lines 211-238 (the same statements as lines 131-155 of the other
\* map_api module), of a new client with use_cache: the cache and the call
\* afterwards. geo1 and geo2 are the two geocode_location calls, routed whether
\* the routing call succeeds.
GetRoute(client, c, start, finish, geo1, geo2, routed) ==
    IF CacheHit(c, RouteCacheKey(start, finish))
    THEN [cache |-> c,
          call |-> Call(client, start, finish, "returned", TRUE,
                        Some(c[RouteCacheKey(start, finish)]), 0, 0, 0)]
    ELSE IF ~routed
    THEN [cache |-> geo2.cache,
          call |-> Call(client, start, finish, "raised", FALSE, NULL,
                        geo1.lookups + geo2.lookups, 1, geo1.added + geo2.added)]
    ELSE LET calls == geo1.added + geo2.added + 1
             res == RouteResult(start, finish, geo1.coords, geo2.coords,
                                IF client = "live" THEN "OSRM" ELSE "MOCK", calls)
         IN  [cache |-> CacheSet(geo2.cache, RouteCacheKey(start, finish), res),
              call |-> Call(client, start, finish, "returned", FALSE, Some(res),
                            geo1.lookups + geo2.lookups, 1, calls)]

\* optimize_route, lines 93-104: MapAPIClient(use_cache=True).get_route(start,
\* finish) is called.
StartLookup ==
    /\ map_pc = "idle"
    /\ requests < MaxRequests
    /\ \E pair \in RequestPairs :
           last_call' = Some(Call("live", pair[1], pair[2], "running", FALSE, NULL, 0, 0, 0))
    /\ map_pc' = "live"
    /\ requests' = requests + 1
    /\ UNCHANGED << cache, segments, request_vars, geo_vars, view_vars, geocode_vars,
                    import_vars >>

\* optimize_route, lines 103-106: get_route of the live client returns, or
\* raises (get_route_osrm: network, HTTP status, code other than 'Ok') and the
\* view falls back to the mock client.
LiveGetRoute ==
    /\ map_pc = "live"
    /\ \E case1 \in GeocodeCases, case2 \in GeocodeCases, routed \in BOOLEAN :
           LET start == last_call[1].start
               finish == last_call[1].finish
               geo1 == GeocodeLocation(cache, start, case1)
               geo2 == GeocodeLocation(geo1.cache, finish, case2)
               after == GetRoute("live", cache, start, finish, geo1, geo2, routed)
           IN  /\ cache' = after.cache
               /\ last_call' = Some(after.call)
               /\ map_pc' = IF after.call.outcome = "raised" THEN "fallback" ELSE "idle"
    /\ UNCHANGED << requests, segments, request_vars, geo_vars, view_vars, geocode_vars,
                    import_vars >>

\* optimize_route, lines 107-108: MockMapAPIClient(use_cache=True).get_route;
\* its geocoding and its routing never fail.
MockGetRoute ==
    /\ map_pc = "fallback"
    /\ LET start == last_call[1].start
           finish == last_call[1].finish
           geo1 == MockGeocodeLocation(cache, start)
           geo2 == MockGeocodeLocation(geo1.cache, finish)
           after == GetRoute("mock", cache, start, finish, geo1, geo2, TRUE)
       IN  /\ cache' = after.cache
           /\ last_call' = Some(after.call)
    /\ map_pc' = "idle"
    /\ UNCHANGED << requests, segments, request_vars, geo_vars, view_vars, geocode_vars,
                    import_vars >>

\* An entry of the cache reaches its timeout (3600 s for routes, 86400 s for
\* coordinates) between two requests.
CacheEntryExpires ==
    /\ map_pc = "idle"
    /\ \E key \in DOMAIN cache : cache' = CacheExpire(cache, key)
    /\ UNCHANGED << map_pc, last_call, requests, segments, request_vars, geo_vars, view_vars,
                    geocode_vars, import_vars >>

MapInit ==
    /\ segments = << >>
    /\ total_distance = 0
    /\ inventory = << >>
    /\ RequestStart
    /\ GeometryIdle
    /\ ServiceIdle

MapNext ==
    \/ StartLookup
    \/ LiveGetRoute
    \/ MockGetRoute
    \/ CacheEntryExpires

MapSpec == MapInit /\ [][MapNext]_vars

\* _live_geocode is called on the geocoding client (import_fuel_data keeps one
\* client for all its stations).
CallLiveGeocode ==
    /\ api_calls_made < MaxApiCalls
    /\ \E location \in Locations, google_key \in BOOLEAN, google \in ProviderOutcomes,
          nominatim \in ProviderOutcomes :
           LET done == LiveGeocode(google_key, google, nominatim)
           IN  /\ geocoded' = Some([location |-> location, google_key |-> google_key,
                                     google |-> google, nominatim |-> nominatim,
                                     consulted |-> done.consulted,
                                     returned_by |-> done.returned_by,
                                     raised |-> done.raised,
                                     coords |-> Coords(location),
                                     calls_before |-> api_calls_made])
               /\ api_calls_made' = api_calls_made + done.added
    /\ UNCHANGED << segments, request_vars, geo_vars, view_vars, map_vars, import_vars >>

GeocodeNext == CallLiveGeocode

GeocodeSpec == MapInit /\ [][GeocodeNext]_vars

(* ------------------------------------------------------- input validation *)

\* Characters of the location strings posted, and the longest string posted.
Chars == { "a", "A", "b", " " }
MaxChars == 2
Strings == UNION { [1..n -> Chars] : n \in 0..MaxChars }

\* str.lower and str.strip (whitespace at both ends) on these strings.
LowerChar(c) == IF c = "A" THEN "a" ELSE c
Lower(string) == [i \in 1..Len(string) |-> LowerChar(string[i])]
RECURSIVE Strip(_)
Strip(string) ==
    IF string = << >> THEN string
    ELSE IF Head(string) = " " THEN Strip(Tail(string))
    ELSE IF string[Len(string)] = " " THEN Strip(SubSeq(string, 1, Len(string) - 1))
    ELSE string

\* request.data of a POST: each of start and finish is missing or a string.
Bodies == [start : { NULL } \cup { Some(s) : s \in Strings },
           finish : { NULL } \cup { Some(s) : s \in Strings }]

\* RouteInputSerializer.start / finish, lines 47-54: CharField(max_length=255),
\* required, allow_blank False, trim_whitespace True. The field is valid when
\* it is present, not blank once trimmed, and no longer than max_length; its
\* validated value is the trimmed string.
max_length == 255
CharFieldValid(value) ==
    /\ value # NULL
    /\ Strip(value[1]) # << >>
    /\ Len(Strip(value[1])) <= max_length
Validated(value) == Strip(value[1])

\* Variant: start and finish are compared as they were posted.
SameLocation_Exact(start, finish) == start = finish

\* RouteInputSerializer.validate, lines 56-62, the condition of its error.
SameLocation(start, finish) == Lower(Strip(start)) = Lower(Strip(finish))

\* input_serializer.is_valid(): the fields, then validate.
IsValid(data) ==
    /\ CharFieldValid(data.start)
    /\ CharFieldValid(data.finish)
    /\ ~SameLocation(Validated(data.start), Validated(data.finish))

\* The route the map provider returns for the locations posted, and the
\* station table, in the behaviours of the view.
ViewRouteLength == 400
ViewStations == << Station(300, 250000) >>

\* optimize_route is called with a POST.
ReceivePost ==
    /\ view_pc = "idle"
    /\ \E data \in Bodies : body' = Some(data)
    /\ view_pc' = "received"
    /\ UNCHANGED << segments, request_vars, geo_vars, map_vars, geocode_vars, import_vars >>

\* optimize_route, lines 83-91: the serializer is not valid, 400 is answered.
RejectInvalidInput ==
    /\ view_pc = "received"
    /\ ~IsValid(body[1])
    /\ http_status' = 400
    /\ view_pc' = "responded"
    /\ UNCHANGED << total_distance, inventory, pc, stations_with_distance, fuel_stops,
                    current_position, current_fuel, warned, result, error, iterations,
                    first_answer >>
    /\ UNCHANGED << body, segments, geo_vars, map_vars, geocode_vars, import_vars >>

\* optimize_route, lines 93-104: the validated start and finish are handed to
\* get_route of the live client.
AcceptInput ==
    /\ view_pc = "received"
    /\ IsValid(body[1])
    /\ last_call' = Some(Call("live", Validated(body[1].start), Validated(body[1].finish),
                              "running", FALSE, NULL, 0, 0, 0))
    /\ map_pc' = "live"
    /\ requests' = requests + 1
    /\ view_pc' = "routing"
    /\ UNCHANGED << body, cache, segments, request_vars, geo_vars, geocode_vars, import_vars >>

\* optimize_route, lines 117-146: with the route returned, RouteOptimizer is
\* built, optimize is called and its result is answered.
OptimizeRoute ==
    /\ view_pc = "routing"
    /\ map_pc = "idle"
    /\ \/ BeginSelection
       \/ DestinationReachable
       \/ Totals
       \/ RespondOk

ViewInit ==
    /\ segments = OneSegment
    /\ total_distance = ViewRouteLength
    /\ inventory = WithIds(ViewStations)
    /\ RequestStart
    /\ GeometryIdle
    /\ ServiceIdle

ViewNext ==
    \/ ReceivePost
    \/ RejectInvalidInput
    \/ AcceptInput
    \/ LiveGetRoute
    \/ MockGetRoute
    \/ OptimizeRoute

ViewSpec == ViewInit /\ [][ViewNext]_vars

(* -------------------------------------------------------------- CSV import *)

\* str.upper on the characters of the files.
UpperChar(c) ==
    CASE c = "a" -> "A"
      [] c = "b" -> "B"
      [] c = "c" -> "C"
      [] c = "n" -> "N"
      [] c = "v" -> "V"
      [] OTHER -> c
Upper(string) == [i \in 1..Len(string) |-> UpperChar(string[i])]

\* int(...) and Decimal(...) of a cell: the number, or nothing when the cell
\* is not a number (ValueError, InvalidOperation).
Digits == [c \in { "1", "2", "3", "4" } |-> CASE c = "1" -> 1 [] c = "2" -> 2 [] c = "3" -> 3 [] c = "4" -> 4]
ParseInt(cell) ==
    IF Len(cell) = 1 /\ cell[1] \in DOMAIN Digits THEN Some(Digits[cell[1]]) ELSE NULL
ParseDecimal(cell) ==
    IF Len(cell) = 1 /\ cell[1] \in DOMAIN Digits THEN Some(Digits[cell[1]]) ELSE NULL

\* A row of the file as csv.DictReader gives it.
CsvRow(opis, price, name, address, city, state) ==
    ("OPIS Truckstop ID" :> opis) @@ ("Retail Price" :> price) @@ ("Truckstop Name" :> name)
    @@ ("Address" :> address) @@ ("City" :> city) @@ ("State" :> state)

\* The rows the files are made of: station 1 with two prices and addresses
\* and with a price that is no number, and station 2; the files, of at most
\* MaxRows rows; and the --batch-size of the runs.
CsvRows ==
    { CsvRow(<< "1" >>, << "3" >>, << " ", "a" >>, << "a" >>, << "b" >>, << "c", "a" >>),
      CsvRow(<< "1" >>, << "4" >>, << "b" >>, << "b", " " >>, << "b" >>, << "n", "v" >>),
      CsvRow(<< "1" >>, << "x" >>, << "b" >>, << "b" >>, << "b" >>, << "n", "v" >>),
      CsvRow(<< "2" >>, << "3" >>, << "a" >>, << "a" >>, << "b" >>, << "C", "A" >>) }
MaxRows == 2
CsvFiles == UNION { [1..n -> CsvRows] : n \in 0..MaxRows }
BatchSizes == { 2 }

\* handle, lines 92-99: the FuelStation built from a row; the fields not given
\* keep their defaults.
NewStation(opis_id, price, row) ==
    [opis_id |-> opis_id,
     name |-> Strip(row["Truckstop Name"]),
     address |-> Strip(row["Address"]),
     city |-> Strip(row["City"]),
     state |-> Upper(Strip(row["State"])),
     retail_price |-> price,
     latitude |-> NULL,
     longitude |-> NULL]

\* Variant: on a conflict the stored row is replaced by the new one.
UpsertRow_Replace(tbl, station) ==
    [id \in DOMAIN tbl \cup { station.opis_id } |->
        IF id = station.opis_id THEN station ELSE tbl[id]]

\* bulk_create(update_conflicts=True, unique_fields=["opis_id"],
\* update_fields=[...]), lines 139-150, for one station: a new opis_id is
\* inserted, an existing one has its five update_fields overwritten.
UpsertRow(tbl, station) ==
    [id \in DOMAIN tbl \cup { station.opis_id } |->
        IF id # station.opis_id THEN tbl[id]
        ELSE IF id \in DOMAIN tbl
        THEN [tbl[id] EXCEPT !.retail_price = station.retail_price,
                             !.name = station.name,
                             !.address = station.address,
                             !.city = station.city,
                             !.state = station.state]
        ELSE station]

\* _do_upsert, lines 133-150.
RECURSIVE DoUpsert(_, _)
DoUpsert(tbl, station_list) ==
    IF station_list = << >> THEN tbl
    ELSE DoUpsert(UpsertRow(tbl, Head(station_list)), Tail(station_list))

\* handle, lines 81-114: the loop over the rows from row i on, and the last
\* batch after it.
RECURSIVE HandleRows(_, _, _, _, _, _)
HandleRows(rows, i, seen_ids, stations_to_upsert, tbl, batch_size) ==
    IF i > Len(rows)
    THEN IF stations_to_upsert # << >> THEN DoUpsert(tbl, stations_to_upsert) ELSE tbl
    ELSE LET opis_id == ParseInt(rows[i]["OPIS Truckstop ID"])
             price == ParseDecimal(rows[i]["Retail Price"])
         IN  IF opis_id = NULL
             THEN HandleRows(rows, i + 1, seen_ids, stations_to_upsert, tbl, batch_size)
             ELSE IF opis_id[1] \in seen_ids
             THEN HandleRows(rows, i + 1, seen_ids, stations_to_upsert, tbl, batch_size)
             ELSE IF price = NULL
             THEN HandleRows(rows, i + 1, seen_ids \cup { opis_id[1] }, stations_to_upsert,
                             tbl, batch_size)
             ELSE LET batch == Append(stations_to_upsert,
                                      NewStation(opis_id[1], price[1], rows[i]))
                  IN  IF Len(batch) >= batch_size
                      THEN HandleRows(rows, i + 1, seen_ids \cup { opis_id[1] }, << >>,
                                      DoUpsert(tbl, batch), batch_size)
                      ELSE HandleRows(rows, i + 1, seen_ids \cup { opis_id[1] }, batch,
                                      tbl, batch_size)

\* _geocode_stations, lines 157 and 180: the stations it looks up, and the
\* location string of one.
WithoutLatitude(tbl) == { id \in DOMAIN tbl : tbl[id].latitude = NULL }
StationLocation(station) ==
    station.address \o << ",", " " >> \o station.city \o << ",", " " >> \o station.state
    \o << ",", " ", "U", "S", "A" >>

\* _geocode_stations, lines 156-215: the stations in done are geocoded and
\* saved; the others fail, or the loop is interrupted before them.
GeocodeStations(tbl, done) ==
    [id \in DOMAIN tbl |->
        IF id \in done
        THEN [tbl[id] EXCEPT !.latitude = Some(Coords(StationLocation(tbl[id]))),
                             !.longitude = Some(Coords(StationLocation(tbl[id])))]
        ELSE tbl[id]]

\* handle, lines 66-127: one run of import_fuel_data. A file that is not
\* found changes nothing; otherwise the rows are upserted and, with --geocode,
\* the stations without latitude are geocoded.
ImportFile ==
    /\ \/ /\ table' = table
          /\ csv_file' = Some([found |-> FALSE, rows |-> << >>, geocode |-> FALSE])
       \/ \E rows \in CsvFiles, geocode \in BOOLEAN, batch_size \in BatchSizes :
              LET imported == HandleRows(rows, 1, {}, << >>, table, batch_size)
              IN  /\ \E done \in IF geocode THEN SUBSET WithoutLatitude(imported) ELSE { {} } :
                         table' = GeocodeStations(imported, done)
                  /\ csv_file' = Some([found |-> TRUE, rows |-> rows, geocode |-> geocode])
    /\ UNCHANGED << segments, request_vars, geo_vars, view_vars, map_vars, geocode_vars >>

ImportNext == ImportFile

ImportSpec == MapInit /\ [][ImportNext]_vars

(* ---------------------------------------------------------------- claims *)

\* The annotated candidates as a set, and the sets the claims speak of, stated
\* with the claims' own numbers.
CandSet == { stations_with_distance[i] : i \in DOMAIN stations_with_distance }
ReachableFrom(p) == { c \in CandSet : p < c.distance /\ c.distance <= p + 500 }
WindowFrom(p) == { c \in ReachableFrom(p) : p + 300 <= c.distance /\ c.distance <= p + 450 }
ChosenFrom(p) == IF WindowFrom(p) # {} THEN WindowFrom(p) ELSE ReachableFrom(p)
CheapestOf(S) == { c \in S : \A o \in S : c.station.retail_price <= o.station.retail_price }

\* This step appended a stop; the stop it appended.
StopEmitted == Len(fuel_stops') = Len(fuel_stops) + 1
NewStop == fuel_stops'[Len(fuel_stops')]
IsStopAt(stop, c) == stop.station = c.station /\ stop.distance_from_start = c.distance

Finished == pc \in {"totals", "returned", "responded"}

\* C1: the leg driven to every emitted stop is longer than 0 and at most
\* VEHICLE_RANGE (500) miles, so the fuel at arrival,
\* TANK_SIZE - distance_from_previous / MPG, is never negative.
C1_LegsWithinRange ==
    \A i \in DOMAIN fuel_stops :
        /\ fuel_stops[i].distance_from_previous > 0
        /\ fuel_stops[i].distance_from_previous <= 500
        /\ 50 * 10 - fuel_stops[i].distance_from_previous >= 0
        /\ fuel_stops[i].fuel_needed <= 50

\* A finished plan of two stops whose second leg is exactly 500 miles.
C1_Witness ==
    /\ pc = "responded"
    /\ Len(fuel_stops) = 2
    /\ fuel_stops[2].distance_from_previous = 500

\* C2 (as claimed): a result optimize returns is a complete plan: no stop and a
\* route of at most 500 miles, or a last stop within 500 miles of the end.
C2_ResultIsComplete ==
    result # NULL =>
        LET stops == result[1].fuel_stops
        IN  \/ stops = << >> /\ total_distance <= 500
            \/ stops # << >> /\ stops[Len(stops)].distance_from_start + 500 >= total_distance

\* An iteration of the loop with the destination out of reach and no candidate
\* in reach; the candidates ahead of the position.
NoneInReach ==
    /\ pc = "loop"
    /\ current_position < total_distance
    /\ current_position + 500 < total_distance
    /\ ReachableFrom(current_position) = {}
Ahead == { c \in CandSet : c.distance > current_position }

C4_ChosenIsCheapest ==
    [][StopEmitted =>
          /\ \E c \in CheapestOf(ChosenFrom(current_position)) : IsStopAt(NewStop, c)
          /\ \E c \in ReachableFrom(current_position) : IsStopAt(NewStop, c)]_vars

\* A first stop chosen in the window although a cheaper candidate is in reach
\* before it, and a second stop chosen with no candidate in its window.
C4_Witness ==
    /\ Len(fuel_stops) = 2
    /\ fuel_stops[1].distance_from_start >= 300
    /\ fuel_stops[1].distance_from_start <= 450
    /\ \E c \in ReachableFrom(0) :
          c.station.retail_price < fuel_stops[1].station.retail_price
    /\ WindowFrom(fuel_stops[1].distance_from_start) = {}

\* C5: among the candidates of the chosen set that share the lowest price, the
\* one chosen has the smallest distance along the route.
C5_TieBreakNearest ==
    [][StopEmitted =>
          \A c \in CheapestOf(ChosenFrom(current_position)) :
              NewStop.distance_from_start <= c.distance]_vars

\* A stop chosen among two candidates of the window with the same price, the
\* lookup having returned the farther one first.
C5_Witness ==
    /\ Len(inventory) >= 2
    /\ Len(fuel_stops) = 1
    /\ fuel_stops[1].station = inventory[2]
    /\ inventory[1].near_route
    /\ inventory[1].retail_price = inventory[2].retail_price
    /\ inventory[1].distance_along > inventory[2].distance_along
    /\ inventory[2].distance_along >= 300
    /\ inventory[1].distance_along <= 450

\* C6: the stops are strictly increasing in distance_from_start, and the first
\* one is beyond the start.
C6_StrictlyIncreasing ==
    /\ fuel_stops # << >> => fuel_stops[1].distance_from_start > 0
    /\ \A i \in DOMAIN fuel_stops :
          i > 1 => fuel_stops[i - 1].distance_from_start < fuel_stops[i].distance_from_start

\* A plan of three stops.
C6_Witness ==
    /\ pc = "responded"
    /\ Len(fuel_stops) = 3

\* C7: a route of at most 500 miles gets no stop, whatever the candidates.
C7_ShortRouteNoStops ==
    total_distance <= 500 => fuel_stops = << >>

\* A route of exactly 500 miles answered with an empty plan, with three
\* candidates strictly inside the route.
C7_Witness ==
    /\ pc = "responded"
    /\ http_status = 200
    /\ total_distance = 500
    /\ result[1].num_fuel_stops = 0
    /\ Len(stations_with_distance) = 3
    /\ \A i \in DOMAIN stations_with_distance :
          /\ stations_with_distance[i].distance > 0
          /\ stations_with_distance[i].distance < 500

IsScenario == inventory = WithIds(ScenarioStations) /\ total_distance = 1000

\* C8: on the scenario (1000 miles; stations at 100, 300, 450, 600, 850 priced
\* 3.00, 2.50, 2.90, 2.60, 2.80) the first stop is the station at 300, 30
\* gallons for 75.00, the second the station at 600, 30 gallons for 78.00, and
\* the plan ends there, the destination being within 500 miles of it.
C8_GreedyScenario ==
    IsScenario =>
        /\ Len(fuel_stops) <= 2
        /\ Len(fuel_stops) >= 1 =>
              /\ fuel_stops[1].distance_from_start = 300
              /\ fuel_stops[1].station.retail_price = 250000
              /\ fuel_stops[1].fuel_needed = 30
              /\ FEqualsRatio(fuel_stops[1].cost, 75, 1)
        /\ Len(fuel_stops) >= 2 =>
              /\ fuel_stops[2].distance_from_start = 600
              /\ fuel_stops[2].station.retail_price = 260000
              /\ fuel_stops[2].fuel_needed = 30
              /\ FEqualsRatio(fuel_stops[2].cost, 78, 1)
        /\ Finished =>
              /\ Len(fuel_stops) = 2
              /\ ~warned
              /\ fuel_stops[2].distance_from_start + 500 >= total_distance

\* The scenario, answered.
C8_Witness ==
    /\ IsScenario
    /\ pc = "responded"
    /\ result[1].num_fuel_stops = 2

\* C9 (as claimed): every stop buys TANK_SIZE minus the fuel at arrival, leaves
\* the tank full, and costs exactly the station's price times the fuel bought.
C9_RefillAndExactCost ==
    \A i \in DOMAIN fuel_stops :
        /\ fuel_stops[i].fuel_needed * 10 = 50 * 10 - (50 * 10 - fuel_stops[i].distance_from_previous)
        /\ current_fuel = 50
        /\ FEqualsRatio(fuel_stops[i].cost,
                        fuel_stops[i].station.retail_price * fuel_stops[i].fuel_needed, 100000)

\* C10: with an empty filtered candidate set optimize raises the no-candidates
\* ValueError before any selection, whatever the route length, and the request
\* is answered 400.
C10_NoCandidatesIs400 ==
    (pc # "start" /\ GetCandidateStations(inventory) = << >>) =>
        /\ error = "ValueError"
        /\ pc \in {"raised", "responded"}
        /\ result = NULL
        /\ stations_with_distance = << >>
        /\ fuel_stops = << >>
        /\ pc = "responded" => http_status = 400

\* A request on a short route answered 400 although the inventory holds
\* stations (without coordinates, or outside the corridor).
C10_Witness ==
    /\ pc = "responded"
    /\ http_status = 400
    /\ total_distance = 400
    /\ Len(inventory) = 2
    /\ inventory[1].latitude = NULL
    /\ inventory[2].latitude # NULL

\* A route no plan can be made for.
MalformedRoute == segments = << >> \/ total_distance <= 0

\* C11 (as claimed): the request for a malformed route, one without segments
\* or with a total distance <= 0, ends in an error and never in a result.
C11_MalformedRouteRejected ==
    (MalformedRoute /\ pc = "responded") =>
        /\ error # "none"
        /\ result = NULL
        /\ http_status # 200

\* The sum of the cost entries of the first n stops, taken in order.
RECURSIVE SumOfCosts(_, _)
SumOfCosts(stops, n) ==
    IF n = 0 THEN FZero ELSE FAdd(SumOfCosts(stops, n - 1), stops[n].cost)

\* C12: in a result, fuel_stops are the stops emitted, total_fuel_cost is the
\* sum of their cost entries, num_fuel_stops their number, and
\* total_fuel_needed the route distance / 10, whatever the stops.
C12_TotalsOfResult ==
    result # NULL =>
        /\ result[1].fuel_stops = fuel_stops
        /\ result[1].total_fuel_cost = SumOfCosts(fuel_stops, Len(fuel_stops))
        /\ result[1].num_fuel_stops = Len(fuel_stops)
        /\ result[1].total_fuel_needed * 10 = total_distance

\* The result of a truncated plan of two stops: 140 gallons needed, 80 bought.
C12_Witness ==
    /\ pc = "responded"
    /\ warned
    /\ result[1].num_fuel_stops = 2
    /\ result[1].total_fuel_needed = 140
    /\ fuel_stops[1].fuel_needed + fuel_stops[2].fuel_needed = 80
    /\ result[1].total_fuel_cost # FZero

\* C13: the loop ends within as many iterations as there are candidates, plus
\* one: an iteration either ends the loop or moves the position to a strictly
\* larger candidate distance, and one more candidate lies behind or at it.
C13_LoopTerminates ==
    /\ [][pc = "loop" =>
             \/ pc' # "loop"
             \/ /\ iterations' = iterations + 1
                /\ current_position' > current_position
                /\ \E c \in CandSet : current_position' = c.distance
                /\ Cardinality(Ahead') < Cardinality(Ahead)]_vars
    /\ [](iterations <= Len(stations_with_distance) + 1)

\* A loop left in its fourth iteration, with three candidates.
C13_Witness ==
    /\ pc = "totals"
    /\ Len(stations_with_distance) = 3
    /\ iterations = 4

\* The coordinates of a station are both set.
Located(st) == st.latitude # NULL /\ st.longitude # NULL

\* C20: a station whose latitude or longitude is unset is no candidate and no
\* stop, whatever the route and the inventory.
C20_UnlocatedNeverCandidate ==
    /\ \A i \in DOMAIN stations_with_distance : Located(stations_with_distance[i].station)
    /\ \A i \in DOMAIN fuel_stops : Located(fuel_stops[i].station)
    /\ result # NULL =>
          \A i \in DOMAIN result[1].fuel_stops : Located(result[1].fuel_stops[i].station)

\* A plan with a stop, made from an inventory that holds a station without
\* latitude and one without longitude.
C20_Witness ==
    /\ pc = "responded"
    /\ result # NULL
    /\ fuel_stops # << >>
    /\ \E i \in DOMAIN inventory : inventory[i].latitude = NULL
    /\ \E i \in DOMAIN inventory : inventory[i].longitude = NULL

\* C14 (as claimed): the same request asked twice of the same station table
\* gets the same answer, whatever orders the lookup returned the rows in.
C14_SameAnswerTwice ==
    (first_answer # NULL /\ pc = "responded") =>
        /\ result = first_answer[1].result
        /\ error = first_answer[1].error
        /\ http_status = first_answer[1].http_status

\* The claimed box of a segment: its bounding box widened by
\* SEARCH_CORRIDOR_WIDTH / 69 degrees of latitude and SEARCH_CORRIDOR_WIDTH / 54
\* degrees of longitude (compared exactly, without dividing).
InClaimedBox(segment, lat, lng) ==
    /\ 69 * (Min(segment.start.lat, segment.end.lat) - lat) <= SEARCH_CORRIDOR_WIDTH * DegreeUnits
    /\ 69 * (lat - Max(segment.start.lat, segment.end.lat)) <= SEARCH_CORRIDOR_WIDTH * DegreeUnits
    /\ 54 * (Min(segment.start.lng, segment.end.lng) - lng) <= SEARCH_CORRIDOR_WIDTH * DegreeUnits
    /\ 54 * (lng - Max(segment.start.lng, segment.end.lng)) <= SEARCH_CORRIDOR_WIDTH * DegreeUnits

\* The summed lengths of the first n segments.
RECURSIVE PrefixLength(_, _)
PrefixLength(route, n) ==
    IF n = 0 THEN 0 ELSE PrefixLength(route, n - 1) + SegmentLength(route[n])

\* A straight route of consecutive segments: each ends where the next starts,
\* and all run the same way along one parallel or one meridian.
StraightRoute(route) ==
    /\ route # << >>
    /\ \A i \in 1..(Len(route) - 1) : route[i].end = route[i + 1].start
    /\ \/ \A i \in DOMAIN route :
             route[i].start.lat = route[1].start.lat /\ route[i].end.lat = route[1].start.lat
             /\ route[i].start.lng < route[i].end.lng
       \/ \A i \in DOMAIN route :
             route[i].start.lng = route[1].start.lng /\ route[i].end.lng = route[1].start.lng
             /\ route[i].start.lat < route[i].end.lat

\* A point on a straight route, and how far along it lies (in coordinate units).
OnRoute(route, p) ==
    /\ p.latitude # NULL
    /\ p.longitude # NULL
    /\ route[1].start.lat <= p.latitude[1]
    /\ p.latitude[1] <= route[Len(route)].end.lat
    /\ route[1].start.lng <= p.longitude[1]
    /\ p.longitude[1] <= route[Len(route)].end.lng
Progress(route, p) ==
    (p.latitude[1] - route[1].start.lat) + (p.longitude[1] - route[1].start.lng)

\* The largest minus the smallest.
Span(S) == MaxOf(S) - MinOf(S)

\* C15: on the one-segment route from (0,0) to (0,10), with a corridor of 25
\* miles, is_near_route accepts the point (0,5), which lies on the route, and
\* rejects the point (5,5).
C15_CorridorContainment ==
    (segments = EquatorRoute /\ near # NULL) =>
        /\ point = Point(0, 5 * DegreeUnits) => near[1] = TRUE
        /\ point = Point(5 * DegreeUnits, 5 * DegreeUnits) => near[1] = FALSE

\* C16: is_near_route is true exactly when some segment has the point inside
\* its bounding box widened by corridor / 69 degrees of latitude and
\* corridor / 54 degrees of longitude, and the smaller of the point's distances
\* to the segment's two ends is at most the corridor width.
C16_BoxAndEndpointDistance ==
    near # NULL =>
        near[1] = \E i \in DOMAIN segments :
                      /\ InClaimedBox(segments[i], point.latitude[1], point.longitude[1])
                      /\ EndpointDistance(segments[i], point.latitude[1], point.longitude[1])
                             <= SEARCH_CORRIDOR_WIDTH * MileUnits

\* C17: get_distance_along_route returns the position of the first segment, in
\* route order, whose smaller endpoint distance is the smallest of all: the
\* summed length of the segments before it if the point is strictly closer to
\* its start than to its end, that sum plus its own length otherwise; so the
\* answer is 0 or a prefix sum of the segment lengths.
C17_PositionOfFirstClosestSegment ==
    along # NULL =>
        LET lat == point.latitude[1]
            lng == point.longitude[1]
            d(i) == EndpointDistance(segments[i], lat, lng)
            first == CHOOSE i \in DOMAIN segments :
                         /\ \A j \in DOMAIN segments : d(i) <= d(j)
                         /\ \A j \in 1..(i - 1) : d(j) > d(i)
            closer_to_start ==
                HaversineDistance(lat, lng, segments[first].start.lat, segments[first].start.lng)
                    < HaversineDistance(lat, lng, segments[first].end.lat, segments[first].end.lng)
        IN  /\ segments = << >> => along[1] = 0
            /\ segments # << >> =>
                   along[1] = IF closer_to_start THEN PrefixLength(segments, first - 1)
                              ELSE PrefixLength(segments, first)
            /\ along[1] \in { PrefixLength(segments, n) : n \in 0..Len(segments) }

\* The midpoint of the first of three segments: as far from its start as from
\* its end, it is placed at the end.
C17_Witness ==
    /\ segments = ThreeSegmentRoute
    /\ point = Point(0, 40)
    /\ HaversineDistance(0, 40, 0, 0) = HaversineDistance(0, 40, 0, 80)
    /\ along = Some(69)

\* C18: on a straight route of consecutive segments, of two points on the
\* route the one less far along never gets a larger get_distance_along_route
\* than the other.
C18_ProjectionMonotone ==
    (along # NULL /\ StraightRoute(segments) /\ OnRoute(segments, point)) =>
        \A q \in PointsOf(segments) :
            (OnRoute(segments, q) /\ Progress(segments, q) < Progress(segments, point)) =>
                GetDistanceAlongRoute(segments, q.latitude[1], q.longitude[1]) <= along[1]

\* A point in the third of three segments, with points before it placed at 0,
\* at the end of the first segment and at the end of the second.
C18_Witness ==
    /\ segments = ThreeSegmentRoute
    /\ point = Point(0, 320)
    /\ along = Some(207)
    /\ GetDistanceAlongRoute(segments, 0, 20) = 0
    /\ GetDistanceAlongRoute(segments, 0, 160) = 69
    /\ GetDistanceAlongRoute(segments, 0, 200) = 207

\* C19 (as claimed): the lookup of get_candidate_stations returns exactly the
\* stations with both coordinates inside the bounding box of all segment ends
\* widened on every side by max(0.5, 10% of the latitude span, 10% of the
\* longitude span) + 0.5 degrees.
C19_SpanBufferedBox ==
    in_query # NULL =>
        in_query[1] =
            /\ point.latitude # NULL
            /\ point.longitude # NULL
            /\ LET lats == { e.lat : e \in Ends(segments) }
                   lngs == { e.lng : e \in Ends(segments) }
                   \* ten times the buffer, in coordinate units
                   buffer10 == Max(Max(5 * DegreeUnits, Span(lats)), Span(lngs)) + 5 * DegreeUnits
               IN  /\ 10 * (MinOf(lats) - point.latitude[1]) <= buffer10
                   /\ 10 * (point.latitude[1] - MaxOf(lats)) <= buffer10
                   /\ 10 * (MinOf(lngs) - point.longitude[1]) <= buffer10
                   /\ 10 * (point.longitude[1] - MaxOf(lngs)) <= buffer10

\* C19 (amended): the lookup of get_candidate_stations returns exactly the
\* stations with both coordinates inside the bounding box of all segment ends
\* widened on every side by 0.5 degrees, whatever the span of the route.
C19_HalfDegreeBox ==
    in_query # NULL =>
        in_query[1] =
            /\ point.latitude # NULL
            /\ point.longitude # NULL
            /\ LET lats == { e.lat : e \in Ends(segments) }
                   lngs == { e.lng : e \in Ends(segments) }
               IN  /\ 2 * (MinOf(lats) - point.latitude[1]) <= DegreeUnits
                   /\ 2 * (point.latitude[1] - MaxOf(lats)) <= DegreeUnits
                   /\ 2 * (MinOf(lngs) - point.longitude[1]) <= DegreeUnits
                   /\ 2 * (point.longitude[1] - MaxOf(lngs)) <= DegreeUnits

\* A station 0.75 degrees west of a route spanning 10 degrees of longitude is
\* not returned.
C19_Witness ==
    /\ segments = EquatorRoute
    /\ Span({ e.lng : e \in Ends(segments) }) = 10 * DegreeUnits
    /\ point = Point(0, -60)
    /\ in_query = Some(FALSE)

\* The sum of distance_from_previous over the stops.
RECURSIVE LegsDriven(_)
LegsDriven(stops) ==
    IF stops = << >> THEN 0
    ELSE LegsDriven(SubSeq(stops, 1, Len(stops) - 1)) + stops[Len(stops)].distance_from_previous

\* The positions a chain of stops can end at: candidates at most VEHICLE_RANGE
\* from the start, and candidates at most VEHICLE_RANGE past one of S.
RECURSIVE ChainEnds(_, _)
ChainEnds(S, D) ==
    LET more == S \cup { d \in D : \E c \in S : c < d /\ d - c <= VEHICLE_RANGE }
    IN  IF more = S THEN S ELSE ChainEnds(more, D)
FeasibleChain(cands, total) ==
    LET D == { cands[i].distance : i \in DOMAIN cands }
    IN  \E c \in ChainEnds({ d \in D : d <= VEHICLE_RANGE }, D) : c + VEHICLE_RANGE >= total

\* C25: if the candidates contain a feasible chain (positions c1 < ... < ck
\* with c1 <= 500, every gap <= 500 and ck + 500 >= total distance), the loop
\* never takes the 'no reachable stations' break and ends with the destination
\* within a full tank of the last stop, whatever the prices.
C25_GreedyFindsChain ==
    (pc \in {"loop", "totals", "returned", "responded"}
        /\ FeasibleChain(stations_with_distance, total_distance)) =>
        /\ ~warned
        /\ Finished => current_position + VEHICLE_RANGE >= total_distance

\* A finished plan on a route that cannot be driven without a stop, whose first
\* stop is not the candidate farthest in reach.
C25_Witness ==
    /\ pc = "totals"
    /\ total_distance > 2 * VEHICLE_RANGE
    /\ FeasibleChain(stations_with_distance, total_distance)
    /\ Len(fuel_stops) >= 2
    /\ \E i \in DOMAIN stations_with_distance :
           /\ stations_with_distance[i].distance > fuel_stops[1].distance_from_start
           /\ stations_with_distance[i].distance <= VEHICLE_RANGE

\* C26: at every point of the loop and after it, the legs of the emitted
\* stops sum to the last stop's distance_from_start, which is the current
\* position; the fuel bought sums to that distance / 10, so it never exceeds
\* total_fuel_needed; and every stop lies strictly before the destination.
C26_FuelAccountingTelescopes ==
    pc \in {"loop", "totals", "returned", "responded"} =>
        /\ LegsDriven(fuel_stops) = current_position
        /\ fuel_stops # << >> =>
               fuel_stops[Len(fuel_stops)].distance_from_start = current_position
        /\ fuel_stops = << >> => current_position = 0
        /\ 10 * FuelBought(fuel_stops) = current_position
        /\ 10 * FuelBought(fuel_stops) <= total_distance
        /\ result # NULL => FuelBought(fuel_stops) <= result[1].total_fuel_needed
        /\ \A i \in DOMAIN fuel_stops : fuel_stops[i].distance_from_start < total_distance

\* A returned plan of two stops with legs of different lengths.
C26_Witness ==
    /\ pc = "returned"
    /\ Len(fuel_stops) = 2
    /\ fuel_stops[1].distance_from_previous # fuel_stops[2].distance_from_previous
    /\ FuelBought(fuel_stops) < result[1].total_fuel_needed

\* C27: every point with both coordinates that is_near_route accepts lies
\* inside the box the lookup of get_candidate_stations queries.
C27_BoxContainsCorridor ==
    (near # NULL /\ near[1] /\ segments # << >>) =>
        /\ InRouteBoxQuery(segments, point)
        /\ in_query # NULL => in_query[1]

\* An accepted point north of every segment end, returned by the lookup.
C27_Witness ==
    /\ segments = EquatorRoute
    /\ point = Point(20, 0)
    /\ near = Some(TRUE)
    /\ in_query = Some(TRUE)

\* C28: a station with latitude and longitude both set that the lookup returns
\* and is_near_route accepts is returned by get_candidate_stations, also when
\* its latitude or longitude is exactly 0.
C28_LocatedNearStationIsCandidate ==
    (candidate # NULL /\ point.latitude # NULL /\ point.longitude # NULL
        /\ InRouteBoxQuery(segments, point)
        /\ IsNearRoute(segments, point.latitude[1], point.longitude[1])) =>
        candidate[1]

\* C23: live geocoding consults Google (only with an API key), then Nominatim,
\* then the mock, a later provider only after every earlier one raised or
\* returned no result; it always returns coordinates and never raises; and
\* api_calls_made is incremented only for a provider that returned a result.
C23_GeocodingFallbackOrder ==
    geocoded # NULL =>
        LET g == geocoded[1]
        IN  /\ g.consulted \in
                   IF g.google_key
                   THEN { << "google" >>, << "google", "nominatim" >>,
                          << "google", "nominatim", "mock" >> }
                   ELSE { << "nominatim" >>, << "nominatim", "mock" >> }
            /\ (g.google_key /\ Len(g.consulted) > 1) => g.google # "result"
            /\ g.consulted[Len(g.consulted)] = "mock" => g.nominatim # "result"
            /\ g.returned_by = g.consulted[Len(g.consulted)]
            /\ ~g.raised
            /\ g.coords = Coords(g.location)
            /\ api_calls_made - g.calls_before =
                   IF g.returned_by \in { "google", "nominatim" } THEN 1 ELSE 0

\* C24: with caching enabled, a get_route whose (start, finish) has an entry
\* stored by an earlier successful get_route of the same pair returns that
\* entry without geocoding or routing call, with api_calls_made unchanged (0
\* for the new client) and the cache as it was; a get_route that raises leaves
\* the route entries of the cache as they were.
C24_RouteCacheHit ==
    /\ [][(/\ map_pc \in { "live", "fallback" }
           /\ RouteCacheKey(last_call[1].start, last_call[1].finish) \in DOMAIN cache
           /\ cache[RouteCacheKey(last_call[1].start, last_call[1].finish)]
                  .start_location.address = last_call[1].start
           /\ cache[RouteCacheKey(last_call[1].start, last_call[1].finish)]
                  .finish_location.address = last_call[1].finish) =>
              /\ last_call'[1].outcome = "returned"
              /\ last_call'[1].result =
                     Some(cache[RouteCacheKey(last_call[1].start, last_call[1].finish)])
              /\ last_call'[1].geocode_lookups = 0
              /\ last_call'[1].routing_calls = 0
              /\ last_call'[1].api_calls_made = 0
              /\ cache' = cache]_vars
    /\ [][(map_pc \in { "live", "fallback" } /\ last_call'[1].outcome = "raised") =>
              \A pair \in RequestPairs :
                  LET key == RouteCacheKey(pair[1], pair[2])
                  IN  /\ key \in DOMAIN cache' <=> key \in DOMAIN cache
                      /\ key \in DOMAIN cache => cache'[key] = cache[key]]_vars

\* The second lookup of a pair is answered from the cache with the OSRM route
\* the first one stored.
C24_Witness ==
    /\ requests = 2
    /\ map_pc = "idle"
    /\ last_call # NULL
    /\ last_call[1].hit
    /\ last_call[1].client = "live"
    /\ last_call[1].result[1].route_from = "OSRM"
    /\ last_call[1].result[1].start_location.address = last_call[1].start
    /\ last_call[1].result[1].finish_location.address = last_call[1].finish
    /\ last_call[1].api_calls_made = 0

\* C29: a route-cache hit of get_route(start, finish) returns a result computed
\* for exactly that start and that finish.
C29_HitIsForSamePair ==
    (last_call # NULL /\ last_call[1].hit) =>
        /\ last_call[1].result[1].start_location.address = last_call[1].start
        /\ last_call[1].result[1].finish_location.address = last_call[1].finish

\* C30: a route returned by get_route of the live client was produced by the
\* live routing provider, never by the mock client of an earlier fallback.
C30_LiveClientServesLiveRoutes ==
    (last_call # NULL /\ last_call[1].client = "live" /\ last_call[1].outcome = "returned") =>
        last_call[1].result[1].route_from = "OSRM"

\* C21: a POST whose body lacks start, lacks finish, or has start and finish
\* equal after trimming and lower-casing is answered 400, and neither the map
\* client nor the optimizer is called for it.
C21_InvalidInputRejected ==
    (/\ body # NULL
     /\ \/ body[1].start = NULL
        \/ body[1].finish = NULL
        \/ Lower(Strip(body[1].start[1])) = Lower(Strip(body[1].finish[1]))) =>
        /\ view_pc \in { "received", "responded" }
        /\ view_pc = "responded" => http_status = 400
        /\ http_status \in { 0, 400 }
        /\ map_pc = "idle" /\ last_call = NULL /\ requests = 0
        /\ pc = "start" /\ result = NULL /\ error = "none" /\ iterations = 0

\* Start 'a' and finish ' A' differ as posted, are equal after trimming and
\* lower-casing, and have been answered 400.
C21_Witness ==
    /\ body = Some([start |-> Some(<< "a" >>), finish |-> Some(<< " ", "A" >>)])
    /\ view_pc = "responded"
    /\ http_status = 400
    /\ last_call = NULL
    /\ pc = "start"

\* The rows of a file that give the opis_id, the first of them, and the five
\* fields an import may write.
RowsOf(rows, opis_id) ==
    { i \in 1..Len(rows) : ParseInt(rows[i]["OPIS Truckstop ID"]) = Some(opis_id) }
FirstRowOf(rows, opis_id) ==
    CHOOSE i \in RowsOf(rows, opis_id) : \A j \in RowsOf(rows, opis_id) : i <= j
Written(station) ==
    << station.retail_price, station.name, station.address, station.city, station.state >>

\* C22: an import keeps every station there was, leaves the coordinates of a
\* station that has latitude and longitude exactly as they are, and writes to
\* a station nothing but the retail_price, name, address, city and state of
\* the first row of the file that has its opis_id; a station is added only
\* from such a first row.
C22_ImportKeepsCoordinates ==
    [][/\ \A id \in DOMAIN table :
              /\ id \in DOMAIN table'
              /\ table'[id].opis_id = table[id].opis_id
              /\ (table[id].latitude # NULL /\ table[id].longitude # NULL) =>
                     /\ table'[id].latitude = table[id].latitude
                     /\ table'[id].longitude = table[id].longitude
       /\ \A id \in DOMAIN table' :
              LET rows == csv_file'[1].rows
              IN  \/ /\ id \in DOMAIN table
                     /\ Written(table'[id]) = Written(table[id])
                  \/ /\ RowsOf(rows, id) # {}
                     /\ LET row == rows[FirstRowOf(rows, id)]
                        IN  /\ table'[id].retail_price = Digits[row["Retail Price"][1]]
                            /\ table'[id].name = Strip(row["Truckstop Name"])
                            /\ table'[id].address = Strip(row["Address"])
                            /\ table'[id].city = Strip(row["City"])
                            /\ table'[id].state = Upper(Strip(row["State"]))]_vars

\* Station 1 was geocoded at one address and has since been given another by a
\* file that names it twice: it has the new address and price of that file's
\* first row for it, and the coordinates of the old address.
C22_Witness ==
    /\ csv_file # NULL
    /\ Cardinality(RowsOf(csv_file[1].rows, 1)) = 2
    /\ 1 \in DOMAIN table
    /\ table[1].latitude # NULL
    /\ table[1].longitude # NULL
    /\ table[1].latitude[1] # Coords(StationLocation(table[1]))
    /\ table[1].retail_price = Digits[csv_file[1].rows[FirstRowOf(csv_file[1].rows, 1)]["Retail Price"][1]]
    /\ table[1].address = Strip(csv_file[1].rows[FirstRowOf(csv_file[1].rows, 1)]["Address"])

====
